---- MODULE Spec2Model ----
(***************************************************************************)
(* Layout analysis of backend/src/ingestion/layout_analyzer.py:            *)
(* column detection, column assignment, reading order, heading detection,  *)
(* document structure, and LayoutAnalyzer.analyze that runs them per page. *)
(*                                                                         *)
(* Numbers.  Coordinates and font sizes are floats in the source; here     *)
(* they are integers.  The two places where the source leaves the integers *)
(* are kept exact: a block's centre (x0 + x1) / 2 is compared doubled, and *)
(* a font-size ratio is kept as the fraction <<font_size, median_size>>    *)
(* and compared by cross-multiplication.  COLUMN_GAP_THRESHOLD / 2 is 15.  *)
(*                                                                         *)
(* Objects.  A TextBlock is a mutable object that the stages change in     *)
(* place; a stage is modelled by the list of blocks as it is after the     *)
(* stage, and the list a stage returns holds the blocks as mutated.        *)
(***************************************************************************)
EXTENDS Integers, Sequences, FiniteSets, TLC

VARIABLES
  pc,              \* position of analyze: the next stage to run
  num_pages,       \* len(doc)
  page_num,        \* the loop variable of analyze (0-based, as in the source)
  doc,             \* the pages read so far: what _extract_text_blocks returned, and the width
  blocks,          \* analyze's local `blocks` (the same objects as blocks_with_columns)
  layout_type,     \* analyze's local `layout_type`
  columns,         \* analyze's local `columns` (None or a list of bands)
  ordered_blocks,  \* analyze's local `ordered_blocks`
  headings,        \* analyze's local `headings`
  pages_analysis,  \* analyze's `pages_analysis`
  all_blocks,      \* analyze's `all_blocks`
  all_headings,    \* analyze's `all_headings`
  result,          \* the dict analyze returns
  call             \* a direct call of one method, as the tests make them: name, arguments, result

vars == <<pc, num_pages, page_num, doc, blocks, layout_type, columns, ordered_blocks,
          headings, pages_analysis, all_blocks, all_headings, result, call>>

analyze_vars == <<pc, num_pages, page_num, doc, blocks, layout_type, columns,
                  ordered_blocks, headings, pages_analysis, all_blocks, all_headings, result>>

----------------------------------------------------------------------------
(* Constants of LayoutAnalyzer.__init__ and the two enums. *)

COLUMN_GAP_THRESHOLD == 30

MIN_COLUMN_WIDTH == 100

MIN_HEADING_SIZE == 12

\* 1.2, as the fraction numerator / denominator
HEADING_SIZE_RATIO == <<12, 10>>

SINGLE_COLUMN == "single_column"

TWO_COLUMN == "two_column"

THREE_COLUMN == "three_column"

MIXED == "mixed"

LayoutType == {SINGLE_COLUMN, TWO_COLUMN, THREE_COLUMN, MIXED}

\* HeadingLevel: the members, and .value
HeadingLevel == {"H1", "H2", "H3", "BODY"}

HeadingLevelValue(level) ==
  CASE level = "H1" -> 1
    [] level = "H2" -> 2
    [] level = "H3" -> 3
    [] level = "BODY" -> 0

\* Optional[List[...]]: None, or a list
None == [none |-> TRUE, list |-> <<>>]

Some(l) == [none |-> FALSE, list |-> l]

\* Python's truth value of an Optional list: None and [] are false
Truthy(opt) == ~opt.none /\ opt.list # <<>>

\* TextBlock as _extract_text_blocks constructs it: the four fields the later
\* stages set start at their sentinels.  `id` is the object's identity: two
\* lists hold the same block when they hold blocks of the same id
TextBlock(id, text, page, bbox, font_size, font_name, font_weight) ==
  [id |-> id, text |-> text, page |-> page, bbox |-> bbox, font_size |-> font_size,
   font_name |-> font_name, font_weight |-> font_weight,
   is_heading |-> FALSE, heading_level |-> "BODY", column |-> -1, reading_order |-> -1]

----------------------------------------------------------------------------
(* Python helpers: sorted(), list.sort(key=...), min(), a fraction compare. *)

Range(s) == {s[i] : i \in 1..Len(s)}

\* min(cluster)
MinOf(s) == CHOOSE v \in Range(s) : \A w \in Range(s) : v <= w

\* ascending sequence of a finite set of integers: sorted(set(...))
RECURSIVE SortedSet(_)
SortedSet(S) ==
  IF S = {} THEN <<>>
  ELSE LET m == CHOOSE v \in S : \A w \in S : v <= w
       IN <<m>> \o SortedSet(S \ {m})

\* insertion of v behind every element <= v of the ascending list s
InsertSorted(s, v) ==
  LET k == Cardinality({i \in 1..Len(s) : s[i] <= v})
  IN SubSeq(s, 1, k) \o <<v>> \o SubSeq(s, k + 1, Len(s))

\* sorted(list of numbers)
RECURSIVE sorted(_)
sorted(s) ==
  IF s = <<>> THEN <<>>
  ELSE InsertSorted(sorted(SubSeq(s, 1, Len(s) - 1)), s[Len(s)])

\* the sort key of line 300: b.bbox[1], the top y (bbox is 1-based here)
SortKeyY0(b) == b.bbox[2]

\* as InsertByY0, with the block put in front of the blocks of its own key
InsertByY0BeforeEqual(s, b) ==
  LET k == Cardinality({i \in 1..Len(s) : SortKeyY0(s[i]) < SortKeyY0(b)})
  IN SubSeq(s, 1, k) \o <<b>> \o SubSeq(s, k + 1, Len(s))

\* insertion of block b behind every block whose key is <= b's: a stable sort step
InsertByY0(s, b) ==
  LET k == Cardinality({i \in 1..Len(s) : SortKeyY0(s[i]) <= SortKeyY0(b)})
  IN SubSeq(s, 1, k) \o <<b>> \o SubSeq(s, k + 1, Len(s))

\* list.sort(key=lambda b: b.bbox[1]): stable, ascending
RECURSIVE SortByY0(_)
SortByY0(s) ==
  IF s = <<>> THEN <<>>
  ELSE InsertByY0(SortByY0(SubSeq(s, 1, Len(s) - 1)), s[Len(s)])

\* ratio >= r for fractions with positive denominators
RatioGE(ratio, r) == ratio[1] * r[2] >= r[1] * ratio[2]

----------------------------------------------------------------------------
(* _cluster_coordinates *)
\* as JoinsCluster, with the gap compared by < in place of <=
JoinsClusterStrict(coord, current_cluster, threshold) ==
  coord - current_cluster[Len(current_cluster)] < threshold

\* line 250: the coordinate joins the current cluster
JoinsCluster(coord, current_cluster, threshold) ==
  coord - current_cluster[Len(current_cluster)] <= threshold

\* lines 249-256: the loop over coords[1:], then the last cluster is appended
RECURSIVE ClusterLoop(_, _, _, _)
ClusterLoop(rest, clusters, current_cluster, threshold) ==
  IF rest = <<>> THEN Append(clusters, current_cluster)
  ELSE IF JoinsCluster(Head(rest), current_cluster, threshold)
       THEN ClusterLoop(Tail(rest), clusters, Append(current_cluster, Head(rest)), threshold)
       ELSE ClusterLoop(Tail(rest), Append(clusters, current_cluster), <<Head(rest)>>, threshold)

_cluster_coordinates(coords, threshold) ==
  IF coords = <<>> THEN <<>>
  ELSE ClusterLoop(Tail(coords), <<>>, <<Head(coords)>>, threshold)

----------------------------------------------------------------------------
(* _detect_columns *)
\* as ColumnCandidate, with the right bound at the next cluster's left edge
ColumnCandidateToNextEdge(clusters, i, page_width) ==
  <<MinOf(clusters[i]), IF i < Len(clusters) THEN MinOf(clusters[i + 1]) ELSE page_width>>

\* lines 216-223: the candidate band of cluster i (1-based here)
ColumnCandidate(clusters, i, page_width) ==
  LET x_left == MinOf(clusters[i])
      x_right == IF i < Len(clusters)
                 THEN MinOf(clusters[i + 1]) - COLUMN_GAP_THRESHOLD \div 2
                 ELSE page_width
  IN <<x_left, x_right>>

\* line 226
ValidColumnWidth(band) == band[2] - band[1] >= MIN_COLUMN_WIDTH

\* lines 214-227: the bands that survive, in cluster order
BuildColumns(clusters, page_width) ==
  LET candidates == [i \in 1..Len(clusters) |-> ColumnCandidate(clusters, i, page_width)]
  IN SelectSeq(candidates, ValidColumnWidth)
\* as LayoutOfColumns, with every count from 3 up taken for three columns
LayoutOfColumnsThreeUp(cols) ==
  IF Len(cols) = 1 THEN SINGLE_COLUMN
  ELSE IF Len(cols) = 2 THEN TWO_COLUMN
  ELSE IF Len(cols) >= 3 THEN THREE_COLUMN
  ELSE MIXED

\* lines 229-237
LayoutOfColumns(cols) ==
  IF Len(cols) = 1 THEN SINGLE_COLUMN
  ELSE IF Len(cols) = 2 THEN TWO_COLUMN
  ELSE IF Len(cols) = 3 THEN THREE_COLUMN
  ELSE MIXED
\* as ReturnedColumns, with the bands returned whatever their number
ReturnedColumnsAlways(cols) == Some(cols)

\* line 239: the bands are returned only when there are at least two
ReturnedColumns(cols) == IF Len(cols) > 1 THEN Some(cols) ELSE None

\* as _detect_columns, with the bands built for a single cluster too
DetectColumnsOfAnyClusters(blks, page_width) ==
  IF blks = <<>> THEN [layout |-> SINGLE_COLUMN, columns |-> None]
  ELSE LET x_coords == sorted([i \in 1..Len(blks) |-> blks[i].bbox[1]])
           clusters == _cluster_coordinates(x_coords, COLUMN_GAP_THRESHOLD)
           cols == BuildColumns(clusters, page_width)
       IN [layout |-> LayoutOfColumns(cols), columns |-> ReturnedColumns(cols)]

\* the pair (layout_type, column_bounds); `page_width` is page.rect.width
_detect_columns(blks, page_width) ==
  IF blks = <<>> THEN [layout |-> SINGLE_COLUMN, columns |-> None]
  ELSE LET x_coords == sorted([i \in 1..Len(blks) |-> blks[i].bbox[1]])
           clusters == _cluster_coordinates(x_coords, COLUMN_GAP_THRESHOLD)
       IN IF Len(clusters) <= 1 THEN [layout |-> SINGLE_COLUMN, columns |-> None]
          ELSE LET cols == BuildColumns(clusters, page_width)
               IN [layout |-> LayoutOfColumns(cols), columns |-> ReturnedColumns(cols)]

----------------------------------------------------------------------------
(* _assign_to_columns *)
\* as BandContains, with the band open at its right end
BandContainsHalfOpen(band, block) ==
  /\ 2 * band[1] <= block.bbox[1] + block.bbox[3]
  /\ block.bbox[1] + block.bbox[3] < 2 * band[2]

\* line 272: x_left <= block_center <= x_right, with block_center = (x0 + x1) / 2
BandContains(band, block) ==
  /\ 2 * band[1] <= block.bbox[1] + block.bbox[3]
  /\ block.bbox[1] + block.bbox[3] <= 2 * band[2]

\* lines 271-277: the first band that contains the centre, else column 0
ColumnOf(block, bands) ==
  LET hits == {i \in 1..Len(bands) : BandContains(bands[i], block)}
  IN IF hits = {} THEN 0
     ELSE (CHOOSE i \in hits : \A j \in hits : i <= j) - 1

_assign_to_columns(blks, cols) ==
  IF ~Truthy(cols)
  THEN [i \in 1..Len(blks) |-> [blks[i] EXCEPT !.column = 0]]
  ELSE [i \in 1..Len(blks) |-> [blks[i] EXCEPT !.column = ColumnOf(blks[i], cols.list)]]

----------------------------------------------------------------------------
(* _determine_reading_order *)

\* as PageColumnGroup, with the blocks of the columns left of col in the group too
PageColumnGroupUpTo(blks, page, col) ==
  LET InGroup(b) == b.page = page /\ b.column <= col
  IN SortByY0(SelectSeq(blks, InGroup))

\* lines 291-300: the group of one (page, column), sorted top to bottom
PageColumnGroup(blks, page, col) ==
  LET InGroup(b) == b.page = page /\ b.column = col
  IN SortByY0(SelectSeq(blks, InGroup))
\* as FirstOrder, with the counter started at 1
FirstOrderOne == 0 + 1

\* line 304
FirstOrder == 0

\* lines 317-320: the blocks of one group get the next numbers and are appended
RECURSIVE EmitGroup(_, _)
EmitGroup(group, ordered) ==
  IF group = <<>> THEN ordered
  ELSE EmitGroup(Tail(group),
                 Append(ordered, [Head(group) EXCEPT !.reading_order = FirstOrder + Len(ordered)]))

\* lines 314-320: the columns of one page, left to right
RECURSIVE EmitColumns(_, _, _, _)
EmitColumns(blks, page, cols, ordered) ==
  IF cols = <<>> THEN ordered
  ELSE EmitColumns(blks, page, Tail(cols),
                   EmitGroup(PageColumnGroup(blks, page, Head(cols)), ordered))
\* as ColumnsOfPage, with the columns in the order they are first met (a set that is not sorted)
ColumnsOfPageAsMet(blks, page) ==
  LET met == {j \in 1..Len(blks) :
                /\ blks[j].page = page
                /\ \A k \in 1..(j - 1) : blks[k].page = page => blks[k].column # blks[j].column}
  IN [i \in 1..Cardinality(met) |-> blks[SortedSet(met)[i]].column]

\* line 311: sorted(set(b.column for b in page_blocks))
ColumnsOfPage(blks, page) ==
  SortedSet({blks[i].column : i \in {j \in 1..Len(blks) : blks[j].page = page}})

\* lines 308-320: the pages in ascending order
RECURSIVE EmitPages(_, _, _)
EmitPages(blks, pages, ordered) ==
  IF pages = <<>> THEN ordered
  ELSE EmitPages(blks, Tail(pages),
                 EmitColumns(blks, Head(pages), ColumnsOfPage(blks, Head(pages)), ordered))

_determine_reading_order(blks) ==
  EmitPages(blks, SortedSet({blks[i].page : i \in 1..Len(blks)}), <<>>)

----------------------------------------------------------------------------
(* _detect_headings *)
\* as MedianSize, with the lower middle element taken for an even count
MedianSizeLower(blks) ==
  LET positive == SelectSeq([i \in 1..Len(blks) |-> blks[i].font_size], LAMBDA s : s > 0)
      font_sizes == sorted(positive)
  IN IF font_sizes = <<>> THEN 0 ELSE font_sizes[(Len(font_sizes) - 1) \div 2 + 1]

\* as MedianSize, with the sizes that are not positive kept in the list
MedianSizeOfAll(blks) ==
  LET font_sizes == sorted([i \in 1..Len(blks) |-> blks[i].font_size])
  IN IF font_sizes = <<>> \/ font_sizes[Len(font_sizes) \div 2 + 1] <= 0 THEN 0
     ELSE font_sizes[Len(font_sizes) \div 2 + 1]

\* lines 338-343: None when no block has a positive font size
MedianSize(blks) ==
  LET positive == SelectSeq([i \in 1..Len(blks) |-> blks[i].font_size], LAMBDA s : s > 0)
      font_sizes == sorted(positive)
  IN IF font_sizes = <<>> THEN 0 ELSE font_sizes[Len(font_sizes) \div 2 + 1]

\* line 352: block.font_size / median_size, as a fraction
SizeRatio(block, median_size) ==
  IF median_size > 0 THEN <<block.font_size, median_size>> ELSE <<1, 1>>

\* as IsHeading, with a bold block of the median size taken as a heading too
IsHeadingBoldAtMedian(block, median_size) ==
  \/ /\ RatioGE(SizeRatio(block, median_size), HEADING_SIZE_RATIO)
     /\ block.font_size >= MIN_HEADING_SIZE
  \/ /\ block.font_weight = "bold"
     /\ RatioGE(SizeRatio(block, median_size), <<10, 10>>)

\* lines 355-358
IsHeading(block, median_size) ==
  \/ /\ RatioGE(SizeRatio(block, median_size), HEADING_SIZE_RATIO)
     /\ block.font_size >= MIN_HEADING_SIZE
  \/ /\ block.font_weight = "bold"
     /\ RatioGE(SizeRatio(block, median_size), <<11, 10>>)
\* as LevelOf, with the two ratios compared by > in place of >=
LevelOfStrict(block, median_size) ==
  IF ~RatioGE(<<15, 10>>, SizeRatio(block, median_size)) THEN "H1"
  ELSE IF ~RatioGE(<<13, 10>>, SizeRatio(block, median_size)) THEN "H2"
  ELSE "H3"

\* lines 362-367
LevelOf(block, median_size) ==
  IF RatioGE(SizeRatio(block, median_size), <<15, 10>>) THEN "H1"
  ELSE IF RatioGE(SizeRatio(block, median_size), <<13, 10>>) THEN "H2"
  ELSE "H3"

\* lines 360-371: a heading is flagged and gets its level; any other block is left as it is
MarkBlock(block, median_size) ==
  IF IsHeading(block, median_size)
  THEN [block EXCEPT !.is_heading = TRUE, !.heading_level = LevelOf(block, median_size)]
  ELSE block

\* the block list after _detect_headings has run on it (the blocks are mutated in place)
BlocksAfterHeadings(blks) ==
  IF blks = <<>> \/ MedianSize(blks) = 0 THEN blks
  ELSE [i \in 1..Len(blks) |-> MarkBlock(blks[i], MedianSize(blks))]

\* the list _detect_headings returns: the blocks this call found to be headings
_detect_headings(blks) ==
  IF blks = <<>> THEN <<>>
  ELSE IF MedianSize(blks) = 0 THEN <<>>
  ELSE LET median_size == MedianSize(blks)
           Found(b) == IsHeading(b, median_size)
       IN [i \in 1..Len(SelectSeq(blks, Found)) |->
             MarkBlock(SelectSeq(blks, Found)[i], median_size)]

----------------------------------------------------------------------------
(* _determine_overall_layout, _block_to_dict *)

\* lines 381-384: layout_counts[layout], the number of pages with that layout
LayoutCount(pages, layout) == Cardinality({i \in 1..Len(pages) : pages[i].layout = layout})

\* line 387: max() over the dict's items returns the first key, in insertion order,
\* whose count is the largest
MostCommon(pages) ==
  LET first(layout) == CHOOSE i \in 1..Len(pages) :
                         /\ pages[i].layout = layout
                         /\ \A j \in 1..Len(pages) : pages[j].layout = layout => i <= j
      best == CHOOSE i \in 1..Len(pages) :
                /\ first(pages[i].layout) = i
                /\ \A j \in 1..Len(pages) :
                     \/ LayoutCount(pages, pages[j].layout) < LayoutCount(pages, pages[i].layout)
                     \/ /\ LayoutCount(pages, pages[j].layout) = LayoutCount(pages, pages[i].layout)
                        /\ i <= first(pages[j].layout)
  IN pages[best].layout

\* as _determine_overall_layout, with the most common layout returned for any list
OverallLayoutByMajority(pages) ==
  IF pages = <<>> THEN SINGLE_COLUMN ELSE MostCommon(pages)

\* lines 377-393
_determine_overall_layout(pages) ==
  IF pages = <<>> THEN SINGLE_COLUMN
  ELSE IF Cardinality({pages[i].layout : i \in 1..Len(pages)}) = 1 THEN MostCommon(pages)
  ELSE MIXED

\* the dict of one block: the object's identity is no field of it, and the level
\* is written as its enum value
_block_to_dict(block) ==
  [text |-> block.text, page |-> block.page, bbox |-> block.bbox,
   font_size |-> block.font_size, font_name |-> block.font_name,
   font_weight |-> block.font_weight, is_heading |-> block.is_heading,
   heading_level |-> HeadingLevelValue(block.heading_level),
   column |-> block.column, reading_order |-> block.reading_order]

BlocksToDicts(blks) == [i \in 1..Len(blks) |-> _block_to_dict(blks[i])]

----------------------------------------------------------------------------
(* _build_document_structure                                               *)
(* current_h1 and current_h2 refer to nodes of the tree; here they are the *)
(* node's position: current_h1 is an index of sections (0 for None), and   *)
(* current_h2 is an index of current_h1's subsections, or of sections when *)
(* current_h1 is None (0 for None).  A list only grows at its end, so a    *)
(* position keeps naming the same node.                                    *)

\* lines 411-416 and 422-427
SectionNode(heading, level) ==
  [title |-> heading.text, level |-> level, page |-> heading.page, subsections |-> <<>>]

\* lines 436-440: the H3 dict has no 'subsections' key
LeafNode(heading) == [title |-> heading.text, level |-> 3, page |-> heading.page]

\* as FoldH1, with the new section put in front of the sections
FoldH1Prepends(st, heading) ==
  [sections |-> <<SectionNode(heading, 1)>> \o st.sections,
   current_h1 |-> 1,
   current_h2 |-> 0]

\* lines 409-418
FoldH1(st, heading) ==
  [sections |-> Append(st.sections, SectionNode(heading, 1)),
   current_h1 |-> Len(st.sections) + 1,
   current_h2 |-> 0]

\* as FoldH2, with every H2 appended to the top level
FoldH2TopLevel(st, heading) ==
  [st EXCEPT !.sections = Append(@, SectionNode(heading, 2)),
             !.current_h1 = 0,
             !.current_h2 = Len(st.sections) + 1]

\* as FoldH2, with an H2 put under the current H2 when there is one
FoldH2Nests(st, heading) ==
  IF st.current_h1 # 0
  THEN IF st.current_h2 # 0
       THEN [st EXCEPT !.sections[st.current_h1].subsections[st.current_h2].subsections =
                         Append(@, SectionNode(heading, 2))]
       ELSE [st EXCEPT !.sections[st.current_h1].subsections = Append(@, SectionNode(heading, 2)),
                       !.current_h2 = Len(st.sections[st.current_h1].subsections) + 1]
  ELSE IF st.current_h2 # 0
       THEN [st EXCEPT !.sections[st.current_h2].subsections = Append(@, SectionNode(heading, 2))]
       ELSE [st EXCEPT !.sections = Append(@, SectionNode(heading, 2)),
                       !.current_h2 = Len(st.sections) + 1]

\* lines 420-432
FoldH2(st, heading) ==
  IF st.current_h1 # 0
  THEN [st EXCEPT !.sections[st.current_h1].subsections = Append(@, SectionNode(heading, 2)),
                  !.current_h2 = Len(st.sections[st.current_h1].subsections) + 1]
  ELSE [st EXCEPT !.sections = Append(@, SectionNode(heading, 2)),
                  !.current_h2 = Len(st.sections) + 1]

\* as FoldH3, with the current H2 not looked at
FoldH3UnderH1(st, heading) ==
  IF st.current_h1 # 0
  THEN [st EXCEPT !.sections[st.current_h1].subsections = Append(@, LeafNode(heading))]
  ELSE [st EXCEPT !.sections = Append(@, LeafNode(heading))]

\* lines 434-446
FoldH3(st, heading) ==
  IF st.current_h2 # 0
  THEN IF st.current_h1 # 0
       THEN [st EXCEPT !.sections[st.current_h1].subsections[st.current_h2].subsections =
                         Append(@, LeafNode(heading))]
       ELSE [st EXCEPT !.sections[st.current_h2].subsections = Append(@, LeafNode(heading))]
  ELSE IF st.current_h1 # 0
       THEN [st EXCEPT !.sections[st.current_h1].subsections = Append(@, LeafNode(heading))]
       ELSE [st EXCEPT !.sections = Append(@, LeafNode(heading))]

\* lines 408-446: one heading of the loop; a level that is none of the three is skipped
FoldHeading(st, heading) ==
  IF heading.heading_level = "H1" THEN FoldH1(st, heading)
  ELSE IF heading.heading_level = "H2" THEN FoldH2(st, heading)
  ELSE IF heading.heading_level = "H3" THEN FoldH3(st, heading)
  ELSE st

RECURSIVE FoldHeadings(_, _)
FoldHeadings(st, hs) ==
  IF hs = <<>> THEN st ELSE FoldHeadings(FoldHeading(st, Head(hs)), Tail(hs))

\* all_blocks is a parameter the method never reads
_build_document_structure(hs, blks) ==
  [sections |-> FoldHeadings([sections |-> <<>>, current_h1 |-> 0, current_h2 |-> 0], hs).sections]

----------------------------------------------------------------------------
(* Texts.  A text is the list of its pieces, a white space character always *)
(* a piece of its own.                                                     *)

Whitespace == {" ", "\t", "\n"}

\* str.strip()
RECURSIVE strip(_)
strip(h) ==
  IF h = <<>> THEN h
  ELSE IF Head(h) \in Whitespace THEN strip(Tail(h))
  ELSE IF h[Len(h)] \in Whitespace THEN strip(SubSeq(h, 1, Len(h) - 1))
  ELSE h

----------------------------------------------------------------------------
(* The documents analyze is run on.  A page is the list of blocks that     *)
(* page.get_text("dict") reports for it, which _extract_text_blocks turns   *)
(* into TextBlocks, and page.rect.width.                                   *)

\* the most pages of a document
MaxPages == 2

\* the most text blocks of a document, over all its pages
MaxDocBlocks == 5

\* spans with a text to read: body text, a title, a heading and a text at
\* the edge, at the left edges 50, 450 and 520 of a page 600 wide, some with
\* white space around the text
TextSpanList ==
  << [text |-> <<" ", "body left", "\n">>, bbox |-> <<50, 100, 150, 112>>,
      size |-> 12, font |-> "Arial"],
     [text |-> <<"title left">>, bbox |-> <<50, 10, 150, 28>>,
      size |-> 18, font |-> "Arial-Bold"],
     [text |-> <<"head right", " ">>, bbox |-> <<450, 10, 550, 25>>,
      size |-> 15, font |-> "Arial-Bold"],
     [text |-> <<"large edge">>, bbox |-> <<520, 100, 590, 116>>,
      size |-> 16, font |-> "Arial"] >>

TextSpans == Range(TextSpanList)

\* a span of white space only
BlankSpan == [text |-> <<" ", " ">>, bbox |-> <<150, 100, 160, 112>>, size |-> 12, font |-> "Arial"]

\* a text block of get_text("dict") (type 0) of one line with one span
BlockOfSpan(span) == [type |-> 0, lines |-> << [spans |-> <<span>>] >>]

\* the parts a page is made of, each with one text to read: a line of body
\* text that ends in a span of white space, a title, a heading, and an image
\* block (type 1, without lines) with the text block beside it
PageParts ==
  { << [type |-> 0, lines |-> << [spans |-> <<TextSpanList[1], BlankSpan>>] >>] >>,
    << BlockOfSpan(TextSpanList[2]) >>,
    << BlockOfSpan(TextSpanList[3]) >>,
    << [type |-> 1], BlockOfSpan(TextSpanList[4]) >> }

\* the blocks of a page made of these parts
RECURSIVE BlocksOfParts(_)
BlocksOfParts(parts) ==
  IF parts = <<>> THEN <<>> ELSE Head(parts) \o BlocksOfParts(Tail(parts))

PageWidths == {600}

\* line 169: a font name is bold when it contains one of BOLD_KEYWORDS; of the
\* font names of TextSpans, these do
BoldFontNames == {"Arial-Bold"}

FontWeight(font_name) == IF font_name \in BoldFontNames THEN "bold" ELSE "normal"

\* lines 158-159: line.get("spans", []) of every line of block.get("lines", [])
RECURSIVE SpansOfLines(_)
SpansOfLines(lines) ==
  IF lines = <<>> THEN <<>>
  ELSE (IF "spans" \in DOMAIN Head(lines) THEN Head(lines).spans ELSE <<>>)
         \o SpansOfLines(Tail(lines))

\* lines 154-159: the spans of the blocks of type 0, in their order
RECURSIVE SpansOfBlocks(_)
SpansOfBlocks(text_blocks) ==
  IF text_blocks = <<>> THEN <<>>
  ELSE LET block == Head(text_blocks)
       IN (IF "type" \in DOMAIN block /\ block.type = 0
           THEN SpansOfLines(IF "lines" \in DOMAIN block THEN block.lines ELSE <<>>)
           ELSE <<>>)
            \o SpansOfBlocks(Tail(text_blocks))

\* lines 147-187: one TextBlock per span of a text block whose stripped text is
\* not empty, in the order of the spans; a key a span lacks has the default of
\* span.get (lines 160, 165, 166, 172); `made` blocks exist already
_extract_text_blocks(text_blocks, page_number, made) ==
  LET Text(span) == IF "text" \in DOMAIN span THEN strip(span.text) ELSE <<>>
      Font(span) == IF "font" \in DOMAIN span THEN span.font ELSE ""
      Size(span) == IF "size" \in DOMAIN span THEN span.size ELSE 0
      BBox(span) == IF "bbox" \in DOMAIN span THEN span.bbox ELSE <<0, 0, 0, 0>>
      spans == SelectSeq(SpansOfBlocks(text_blocks), LAMBDA span : Text(span) # <<>>)
  IN [i \in 1..Len(spans) |->
        TextBlock(made + i, Text(spans[i]), page_number, BBox(spans[i]),
                  Size(spans[i]), Font(spans[i]), FontWeight(Font(spans[i])))]

\* the blocks of `list`, each as it is in `mutated` when `mutated` holds it
Refresh(list, mutated) ==
  [i \in 1..Len(list) |->
     IF \E j \in 1..Len(mutated) : mutated[j].id = list[i].id
     THEN mutated[CHOOSE j \in 1..Len(mutated) : mutated[j].id = list[i].id]
     ELSE list[i]]

NoResult == [returned |-> FALSE]

Idle == [fn |-> "idle"]

----------------------------------------------------------------------------
(* analyze, one action per stage of its loop body *)

InitAnalyze ==
  /\ pc = "loop"
  /\ num_pages \in 0..MaxPages
  /\ page_num = 0
  /\ doc = <<>>
  /\ blocks = <<>>
  /\ layout_type = "unset"
  /\ columns = None
  /\ ordered_blocks = <<>>
  /\ headings = <<>>
  /\ pages_analysis = <<>>
  /\ all_blocks = <<>>
  /\ all_headings = <<>>
  /\ result = NoResult

\* lines 100-104: the next page of the document is read
ExtractTextBlocks ==
  /\ pc = "loop"
  /\ page_num < num_pages
  /\ \E k \in 0..(MaxDocBlocks - Len(all_blocks)) :
     \E parts \in [1..k -> PageParts], width \in PageWidths :
       /\ blocks' = _extract_text_blocks(BlocksOfParts(parts), page_num + 1, Len(all_blocks))
       /\ doc' = Append(doc, [blocks |-> BlocksOfParts(parts), width |-> width])
  /\ pc' = "detect_columns"
  /\ UNCHANGED <<num_pages, page_num, layout_type, columns, ordered_blocks, headings,
                 pages_analysis, all_blocks, all_headings, result, call>>

\* line 107
DetectColumns ==
  /\ pc = "detect_columns"
  /\ layout_type' = _detect_columns(blocks, doc[page_num + 1].width).layout
  /\ columns' = _detect_columns(blocks, doc[page_num + 1].width).columns
  /\ pc' = "assign_to_columns"
  /\ UNCHANGED <<num_pages, page_num, doc, blocks, ordered_blocks, headings,
                 pages_analysis, all_blocks, all_headings, result, call>>

\* line 110: blocks_with_columns is the list `blocks` itself
AssignToColumns ==
  /\ pc = "assign_to_columns"
  /\ blocks' = _assign_to_columns(blocks, columns)
  /\ pc' = "reading_order"
  /\ UNCHANGED <<num_pages, page_num, doc, layout_type, columns, ordered_blocks, headings,
                 pages_analysis, all_blocks, all_headings, result, call>>

\* line 113: a new list of the same blocks, which now carry their reading_order
DetermineReadingOrder ==
  /\ pc = "reading_order"
  /\ ordered_blocks' = _determine_reading_order(blocks)
  /\ blocks' = Refresh(blocks, _determine_reading_order(blocks))
  /\ pc' = "detect_headings"
  /\ UNCHANGED <<num_pages, page_num, doc, layout_type, columns, headings,
                 pages_analysis, all_blocks, all_headings, result, call>>

\* as DetectHeadings, with the headings looked for in `blocks`, the list in the
\* order of extraction
DetectHeadingsOfExtracted ==
  /\ pc = "detect_headings"
  /\ headings' = _detect_headings(blocks)
  /\ ordered_blocks' = BlocksAfterHeadings(ordered_blocks)
  /\ blocks' = Refresh(blocks, BlocksAfterHeadings(ordered_blocks))
  /\ pc' = "append_page"
  /\ UNCHANGED <<num_pages, page_num, doc, layout_type, columns,
                 pages_analysis, all_blocks, all_headings, result, call>>

\* as DetectHeadings, with the median taken over the blocks of the pages
\* analysed so far and of this page
DetectHeadingsOfDocument ==
  /\ pc = "detect_headings"
  /\ LET scope == all_blocks \o ordered_blocks
         OfThisPage(b) == b.page = page_num + 1
     IN /\ headings' = SelectSeq(_detect_headings(scope), OfThisPage)
        /\ ordered_blocks' = SelectSeq(BlocksAfterHeadings(scope), OfThisPage)
        /\ blocks' = Refresh(blocks, BlocksAfterHeadings(scope))
  /\ pc' = "append_page"
  /\ UNCHANGED <<num_pages, page_num, doc, layout_type, columns,
                 pages_analysis, all_blocks, all_headings, result, call>>

\* line 116
DetectHeadings ==
  /\ pc = "detect_headings"
  /\ headings' = _detect_headings(ordered_blocks)
  /\ ordered_blocks' = BlocksAfterHeadings(ordered_blocks)
  /\ blocks' = Refresh(blocks, BlocksAfterHeadings(ordered_blocks))
  /\ pc' = "append_page"
  /\ UNCHANGED <<num_pages, page_num, doc, layout_type, columns,
                 pages_analysis, all_blocks, all_headings, result, call>>

\* lines 118-125
PageEntry(number, layout, cols, ordered, hs) ==
  [page |-> number,
   layout |-> layout,
   columns |-> IF Truthy(cols) THEN Len(cols.list) ELSE 1,
   column_bounds |-> cols,
   blocks |-> BlocksToDicts(ordered),
   headings |-> BlocksToDicts(hs)]

\* lines 118-128, and the loop goes on to the next page
AppendPage ==
  /\ pc = "append_page"
  /\ pages_analysis' = Append(pages_analysis,
                              PageEntry(page_num + 1, layout_type, columns, ordered_blocks, headings))
  /\ all_blocks' = all_blocks \o ordered_blocks
  /\ all_headings' = all_headings \o headings
  /\ page_num' = page_num + 1
  /\ pc' = "loop"
  /\ UNCHANGED <<num_pages, doc, blocks, layout_type, columns, ordered_blocks, headings,
                 result, call>>

\* lines 138-145
AnalyzeResult(pages, hs, blks) ==
  [returned |-> TRUE,
   layout_type |-> _determine_overall_layout(pages),
   pages |-> pages,
   headings |-> BlocksToDicts(hs),
   structure |-> _build_document_structure(hs, blks),
   total_pages |-> Len(pages),
   total_headings |-> Len(hs)]

\* lines 130-145: the loop is over
Finish ==
  /\ pc = "loop"
  /\ page_num = num_pages
  /\ result' = AnalyzeResult(pages_analysis, all_headings, all_blocks)
  /\ pc' = "done"
  /\ UNCHANGED <<num_pages, page_num, doc, blocks, layout_type, columns, ordered_blocks,
                 headings, pages_analysis, all_blocks, all_headings, call>>

Init == InitAnalyze /\ call = Idle

Next ==
  \/ ExtractTextBlocks
  \/ DetectColumns
  \/ AssignToColumns
  \/ DetermineReadingOrder
  \/ DetectHeadings
  \/ AppendPage
  \/ Finish

Spec == Init /\ [][Next]_vars

----------------------------------------------------------------------------
(* backend/src/ingestion/postprocessor.py: merge_cross_page_tables.        *)
(* A string is the sequence of its characters, so that lower() and strip() *)
(* are computed.  A table is a dict; `id` is the identity of its rows      *)
(* list: dict.copy() is shallow, so a copy shares the list with the table  *)
(* it was copied from and carries the same id.                             *)

UpperCase ==
  <<"A", "B", "C", "D", "E", "F", "G", "H", "I", "J", "K", "L", "M",
    "N", "O", "P", "Q", "R", "S", "T", "U", "V", "W", "X", "Y", "Z">>

LowerCase ==
  <<"a", "b", "c", "d", "e", "f", "g", "h", "i", "j", "k", "l", "m",
    "n", "o", "p", "q", "r", "s", "t", "u", "v", "w", "x", "y", "z">>

\* the characters str.strip() removes, of those the headers are written with
\* str.lower()
lower(h) ==
  [i \in 1..Len(h) |->
     IF \E k \in 1..Len(UpperCase) : UpperCase[k] = h[i]
     THEN LowerCase[CHOOSE k \in 1..Len(UpperCase) : UpperCase[k] = h[i]]
     ELSE h[i]]

\* lines 220-221: [h.lower().strip() for h in headers]
NormalHeaders(headers) == [i \in 1..Len(headers) |-> strip(lower(headers[i]))]

\* as HeadersContinue, without the rule for a table_b that has no headers
HeadersContinueOnMatchOnly(headers_a, headers_b) ==
  IF Len(headers_a) = Len(headers_b) /\ headers_a # <<>>
  THEN 10 * Cardinality({i \in 1..Len(headers_a) : headers_a[i] = headers_b[i]})
         > 7 * Len(headers_a)
  ELSE FALSE

\* lines 223-233: table_b has no headers or blank ones, or more than 70% of the
\* headers are the same
HeadersContinue(headers_a, headers_b) ==
  IF headers_b = <<>> \/ \A i \in 1..Len(headers_b) : headers_b[i] = <<>> THEN TRUE
  ELSE IF Len(headers_a) = Len(headers_b)
       THEN LET matching == Cardinality({i \in 1..Len(headers_a) : headers_a[i] = headers_b[i]})
            IN IF headers_a # <<>> THEN 10 * matching > 7 * Len(headers_a) ELSE FALSE
       ELSE FALSE

\* as SameColumns, with any two column counts accepted
SameColumnsAlways(table_a, table_b) == TRUE

\* lines 215-217
SameColumns(table_a, table_b) == table_a.col_count = table_b.col_count

\* lines 210-212
ConsecutivePages(table_a, table_b) ==
  LET page_a_end == IF "page_end" \in DOMAIN table_a THEN table_a.page_end ELSE table_a.page
  IN table_b.page = page_a_end + 1

_should_merge_tables(table_a, table_b) ==
  IF ~ConsecutivePages(table_a, table_b) THEN FALSE
  ELSE IF ~SameColumns(table_a, table_b) THEN FALSE
  ELSE HeadersContinue(NormalHeaders(table_a.headers), NormalHeaders(table_b.headers))

\* insertion of table t behind every table whose page is <= t's: a stable sort step
InsertByPage(ts, t) ==
  LET k == Cardinality({i \in 1..Len(ts) : ts[i].page <= t.page})
  IN SubSeq(ts, 1, k) \o <<t>> \o SubSeq(ts, k + 1, Len(ts))

\* line 160: sorted(tables, key=lambda t: t['page'])
RECURSIVE SortByPage(_)
SortByPage(ts) ==
  IF ts = <<>> THEN <<>>
  ELSE InsertByPage(SortByPage(SubSeq(ts, 1, Len(ts) - 1)), ts[Len(ts)])

\* lines 168-170 and 184-186: the copy of a table that becomes the pending table
StartPending(table) == [page_start |-> table.page, page_end |-> table.page] @@ table

\* lines 175-179: the rows are appended to the list the pending table shares
\* with the table it was copied from, so that table of the input grows too
ExtendPending(st, table) ==
  [st EXCEPT !.pending =
               <<[merged |-> TRUE] @@ [st.pending[1] EXCEPT !.rows = @ \o table.rows,
                                                             !.row_count = @ + table.row_count,
                                                             !.page_end = table.page]>>,
             !.tables =
               [i \in 1..Len(st.tables) |->
                  IF st.tables[i].id = st.pending[1].id
                  THEN [st.tables[i] EXCEPT !.rows = @ \o table.rows]
                  ELSE st.tables[i]]]

\* lines 165-186: one table of the loop; `pending` is the empty list for None
MergeStep(st, table) ==
  IF st.pending = <<>> THEN [st EXCEPT !.pending = <<StartPending(table)>>]
  ELSE IF _should_merge_tables(st.pending[1], table) THEN ExtendPending(st, table)
  ELSE [st EXCEPT !.merged = Append(@, st.pending[1]), !.pending = <<StartPending(table)>>]

RECURSIVE MergeLoop(_, _)
MergeLoop(st, sorted_tables) ==
  IF sorted_tables = <<>> THEN st
  ELSE MergeLoop(MergeStep(st, Head(sorted_tables)), Tail(sorted_tables))

\* the state of merge_cross_page_tables when its loop is over: `tables` is the
\* list passed in, as the call leaves its tables
MergeRun(tables) ==
  MergeLoop([merged |-> <<>>, pending |-> <<>>, tables |-> tables], SortByPage(tables))

\* lines 156-192: the list returned
merge_cross_page_tables(tables) ==
  IF tables = <<>> THEN <<>>
  ELSE MergeRun(tables).merged \o MergeRun(tables).pending

\* the tables passed to merge_cross_page_tables after the call
TablesAfterMerge(tables) == IF tables = <<>> THEN tables ELSE MergeRun(tables).tables

----------------------------------------------------------------------------
(* MarkdownConverter (markdown_converter.py).  A text is the list of its    *)
(* pieces: a text of the input is given character by character, the fixed  *)
(* words of a format string are one piece each.                            *)

\* str() of a natural number
RECURSIVE Str(_)
Str(n) ==
  LET digits == <<"0", "1", "2", "3", "4", "5", "6", "7", "8", "9">>
  IN IF n < 10 THEN <<digits[n + 1]>>
     ELSE Str(n \div 10) \o <<digits[(n % 10) + 1]>>

\* sep.join(texts)
RECURSIVE Join(_, _)
Join(sep, texts) ==
  IF texts = <<>> THEN <<>>
  ELSE IF Len(texts) = 1 THEN texts[1]
  ELSE texts[1] \o sep \o Join(sep, Tail(texts))

\* word in text
Contains(text, word) ==
  \E from \in 0..(Len(text) - Len(word)) :
    SubSeq(text, from + 1, from + Len(word)) = word

Abs(x) == IF x < 0 THEN -x ELSE x

\* "| " + " | ".join(cells) + " |"
TableLine(cells) == <<"| ">> \o Join(<<" | ">>, cells) \o <<" |">>

\* lines 303-356
_table_to_markdown(table) ==
  LET caption_lines == IF "caption" \in DOMAIN table /\ table.caption # <<>>
                       THEN << <<"### ">> \o table.caption >> ELSE <<>>
      context_lines == IF "context" \in DOMAIN table /\ table.context # <<>>
                       THEN << <<"*">> \o table.context \o <<"*">> >> ELSE <<>>
      rows == table.rows
      col_count == IF rows # <<>> THEN Len(rows[1]) ELSE 0
      headers == IF table.headers = <<>>
                 THEN [i \in 1..col_count |-> <<"Column ">> \o Str(i)]
                 ELSE table.headers
      header_line == TableLine([i \in 1..Len(headers) |-> strip(headers[i])])
      separator == TableLine([i \in 1..Len(headers) |-> <<"---">>])
      row_lines == [r \in 1..Len(rows) |->
                      TableLine([i \in 1..Len(headers) |->
                                   IF i <= Len(rows[r]) THEN strip(rows[r][i]) ELSE <<>>])]
      page_start == IF "page_start" \in DOMAIN table THEN table.page_start ELSE table.page
      page_end == IF "page_end" \in DOMAIN table THEN table.page_end ELSE page_start
      source == IF page_start = page_end
                THEN <<"<!-- Source: Page ">> \o Str(page_start) \o <<" -->">>
                ELSE <<"<!-- Source: Pages ">> \o Str(page_start) \o <<"-">>
                       \o Str(page_end) \o <<" -->">>
  IN IF table.headers = <<>> /\ rows = <<>> THEN <<>>
     ELSE Join(<<"\n">>, caption_lines \o context_lines \o <<header_line, separator>>
                           \o row_lines \o <<source>>)

\* lines 358-376
_formula_to_markdown(formula) ==
  LET latex == strip(formula.latex)
      is_block == \/ Len(latex) > 50
                  \/ \E i \in 1..Len(latex) : latex[i] = "\n"
                  \/ Contains(latex, <<"\\", "b", "e", "g", "i", "n">>)
  IN IF latex = <<>> THEN <<>>
     ELSE IF is_block THEN <<"$$\n">> \o latex \o <<"\n$$">>
     ELSE <<"$">> \o latex \o <<"$">>

\* lang_map.get(language, language), lines 392-411: the names that are mapped
\* to another one
MdLang(language) ==
  IF language = <<"c", "+", "+">> THEN <<"c", "p", "p">>
  ELSE IF language = <<"s", "h", "e", "l", "l">> THEN <<"b", "a", "s", "h">>
  ELSE IF language \in {<<"p", "l", "a", "i", "n", "t", "e", "x", "t">>, <<"t", "e", "x", "t">>}
       THEN <<>>
  ELSE language

\* the fence of a code block (lines 414-420): three grave accents, written as
\* a piece of its own
Fence == "<fence>"

\* lines 378-426
_code_to_markdown(code) ==
  LET language == lower(code.language)
      code_text == strip(code.code)
  IN IF code_text = <<>> THEN <<>>
     ELSE Join(<<"\n">>,
               << <<Fence>> \o MdLang(language),
                  code_text,
                  <<Fence>>,
                  <<"<!-- Code from page ">> \o Str(code.page) \o <<", detected as: ">>
                    \o language \o <<" -->">> >>)

\* lines 428-447
_image_to_markdown(image) ==
  LET page == Str(image.page)
      img_index == IF "image_index" \in DOMAIN image THEN Str(image.image_index) ELSE <<"0">>
      img_format == IF "format" \in DOMAIN image THEN image.format ELSE <<"png">>
      width == IF "width" \in DOMAIN image THEN Str(image.width) ELSE <<"?">>
      height == IF "height" \in DOMAIN image THEN Str(image.height) ELSE <<"?">>
      alt_text == <<"Image ">> \o img_index \o <<" from page ">> \o page \o <<" (">>
                    \o width \o <<"x">> \o height \o <<")">>
      img_filename == <<"image_p">> \o page \o <<"_">> \o img_index \o <<".">> \o img_format
  IN <<"![">> \o alt_text \o <<"](">> \o img_filename \o <<")">>

\* the y_pos and the reading_order of what has no bbox or is no text block
\* (lines 233, 239, 247-249)
NoPosition == 9999

\* lines 176-182; a bbox is (x0, y0, x1, y1), round(.., 1) leaves a whole
\* number as it is
TableRegions(tables) ==
  {<<tables[i].bbox[2], tables[i].bbox[4]>> :
     i \in {k \in 1..Len(tables) : "bbox" \in DOMAIN tables[k]}}

\* lines 193-198
IsInTable(block, table_regions) ==
  \E tr \in table_regions :
    /\ Abs(block.bbox[2] - tr[1]) < 5
    /\ Abs(block.bbox[4] - tr[2]) < 5

\* lines 204-216
TextMarkdown(block, text) ==
  IF block.is_heading
  THEN IF block.heading_level = 1 THEN <<"# ">> \o text
       ELSE IF block.heading_level = 2 THEN <<"## ">> \o text
       ELSE IF block.heading_level = 3 THEN <<"### ">> \o text
       ELSE text
  ELSE text

\* lines 184-224
TextItems(blks, table_regions) ==
  LET kept == SelectSeq(blks, LAMBDA b : strip(b.text) # <<>> /\ ~IsInTable(b, table_regions))
  IN [i \in 1..Len(kept) |->
        [type |-> "text", y_pos |-> kept[i].bbox[2], column |-> kept[i].column,
         reading_order |-> kept[i].reading_order,
         markdown |-> TextMarkdown(kept[i], strip(kept[i].text))]]

\* lines 226-241
TableItems(tables) ==
  [i \in 1..Len(tables) |->
     [type |-> "table",
      y_pos |-> IF "bbox" \in DOMAIN tables[i] THEN tables[i].bbox[2] ELSE NoPosition,
      column |-> 0, reading_order |-> NoPosition,
      markdown |-> _table_to_markdown(tables[i])]]

\* lines 245-249, 263-267, 281-285: the bbox of a formula, a code block or an
\* image is a list (x0, y0, x1, y1) or a dict with the key y0
YPosOf(item) ==
  IF "bbox" \in DOMAIN item
  THEN IF item.bbox.kind = "list" THEN item.bbox.at[2]
       ELSE IF "y0" \in DOMAIN item.bbox THEN item.bbox.y0 ELSE NoPosition
  ELSE NoPosition

\* lines 251-259, 269-277, 287-295: what has no markdown is left out
RichItems(type, items, markdowns) ==
  LET kept == SelectSeq([i \in 1..Len(items) |-> i], LAMBDA i : markdowns[i] # <<>>)
  IN [n \in 1..Len(kept) |->
        [type |-> type, y_pos |-> YPosOf(items[kept[n]]), column |-> 0,
         reading_order |-> NoPosition, markdown |-> markdowns[kept[n]]]]

\* line 299: the key of the sort is (reading_order, y_pos); list.sort is
\* stable: an item goes behind the items of the same key
InsertByKey(s, item) ==
  LET KeyBefore(a, b) == \/ a.reading_order < b.reading_order
                         \/ a.reading_order = b.reading_order /\ a.y_pos < b.y_pos
      n == Cardinality({i \in 1..Len(s) : ~KeyBefore(item, s[i])})
  IN SubSeq(s, 1, n) \o <<item>> \o SubSeq(s, n + 1, Len(s))

RECURSIVE SortByKey(_)
SortByKey(s) ==
  IF s = <<>> THEN <<>>
  ELSE InsertByKey(SortByKey(SubSeq(s, 1, Len(s) - 1)), s[Len(s)])

\* lines 156-301
_merge_content_by_position(page_data, tables, formulas, code_blocks, images) ==
  SortByKey(TextItems(page_data.blocks, TableRegions(tables))
            \o TableItems(tables)
            \o RichItems("formula", formulas,
                         [i \in 1..Len(formulas) |-> _formula_to_markdown(formulas[i])])
            \o RichItems("code", code_blocks,
                         [i \in 1..Len(code_blocks) |-> _code_to_markdown(code_blocks[i])])
            \o RichItems("image", images,
                         [i \in 1..Len(images) |-> _image_to_markdown(images[i])]))

\* lines 138-144: the content items of every page of the layout
ContentItemsOfPages(layout, tables, formulas, code_blocks, images) ==
  [p \in 1..Len(layout.pages) |->
     LET page_no == layout.pages[p].page
         OnPage(items) == SelectSeq(items, LAMBDA x : x.page = page_no)
         TablesOnPage ==
           SelectSeq(tables, LAMBDA t : \/ t.page = page_no
                                        \/ "page_start" \in DOMAIN t /\ t.page_start = page_no)
     IN _merge_content_by_position(layout.pages[p], TablesOnPage, OnPage(formulas),
                                   OnPage(code_blocks), OnPage(images))]

\* lines 118-154
_build_with_layout(layout, tables, formulas, code_blocks, images) ==
  LET content_items == ContentItemsOfPages(layout, tables, formulas, code_blocks, images)
  IN [p \in 1..Len(layout.pages) |->
        Join(<<"\n\n">>,
             << <<"## Page ">> \o Str(layout.pages[p].page) >>
               \o [i \in 1..Len(content_items[p]) |-> content_items[p][i].markdown])]

----------------------------------------------------------------------------
(* Direct calls of the methods, as tests/test_layout_analyzer.py makes     *)
(* them: `call` holds the method's name, its arguments and what it         *)
(* returned, until the call is over.                                       *)

\* the longest coordinate list _cluster_coordinates is called with
MaxCoords == 8

\* the coordinates of test_cluster_coordinates
CoordValues == {10, 12, 15, 100, 105, 110, 300, 305}

Thresholds == {5, 20}

\* the ascending lists of exactly n coordinates
RECURSIVE AscendingLists(_)
AscendingLists(n) ==
  IF n = 0 THEN {<<>>}
  ELSE UNION {{Append(s, v) : v \in {w \in CoordValues : s = <<>> \/ s[Len(s)] <= w}} :
              s \in AscendingLists(n - 1)}

\* the most blocks of a page _detect_columns is called with
MaxColumnBlocks == 4

\* left edges: 50 and 60 cluster; 200, 350, 500 are a column apart; 450 and 520
\* leave bands narrower than MIN_COLUMN_WIDTH
ColumnX0s == {50, 60, 200, 350, 450, 500, 520}

UnitPageWidths == {560, 600}

\* a block of a test: body text, 80 wide, at the left edge x0
BlockAt(id, x0) == TextBlock(id, "Test", 1, <<x0, 10, x0 + 80, 20>>, 12, "Arial", "normal")

\* the most blocks _assign_to_columns is called with
MaxAssignBlocks == 2

\* the most bands _assign_to_columns is called with
MaxBands == 2

\* horizontal extents (x0, x1): centres 125 and 425 (test_assign_two_columns),
\* 300 (on the edge of two bands), 125.5 and 650
AssignExtents == {<<50, 200>>, <<350, 500>>, <<250, 350>>, <<50, 201>>, <<600, 700>>}

BandValues == {<<0, 300>>, <<300, 600>>, <<50, 185>>, <<200, 435>>}

BlockSpanning(id, extent) ==
  TextBlock(id, "Test", 1, <<extent[1], 10, extent[2], 20>>, 12, "Arial", "normal")

\* the most blocks _determine_reading_order is called with
MaxOrderBlocks == 3

\* (page, column, y0) of a column-assigned block
OrderPlaces == {1, 2} \X {0, 1, 2} \X {10, 100}

BlockPlaced(id, place) ==
  [TextBlock(id, "Test", place[1], <<50, place[3], 200, place[3] + 10>>, 12, "Arial", "normal")
     EXCEPT !.column = place[2]]

\* the most blocks _detect_headings is called with
MaxHeadingBlocks == 4

FontSizes == {0, 8, 10, 11, 12, 13, 15}

FontWeights == {"bold", "normal"}

BlockInFont(id, font) ==
  TextBlock(id, "Test", 1, <<50, 10 * id, 200, 10 * id + 8>>, font[1],
            IF font[2] = "bold" THEN "Arial-Bold" ELSE "Arial", font[2])

\* no analyze is running
InitUnit ==
  /\ call = Idle
  /\ pc = "done"
  /\ num_pages = 0
  /\ page_num = 0
  /\ doc = <<>>
  /\ blocks = <<>>
  /\ layout_type = "unset"
  /\ columns = None
  /\ ordered_blocks = <<>>
  /\ headings = <<>>
  /\ pages_analysis = <<>>
  /\ all_blocks = <<>>
  /\ all_headings = <<>>
  /\ result = NoResult

CallClusterCoordinates ==
  /\ call = Idle
  /\ \E n \in 0..MaxCoords : \E coords \in AscendingLists(n), threshold \in Thresholds :
       call' = [fn |-> "_cluster_coordinates", coords |-> coords, threshold |-> threshold,
                ret |-> _cluster_coordinates(coords, threshold)]
  /\ UNCHANGED analyze_vars

CallDetectColumns ==
  /\ call = Idle
  /\ \E k \in 0..MaxColumnBlocks : \E xs \in [1..k -> ColumnX0s], width \in UnitPageWidths :
       LET blks == [i \in 1..k |-> BlockAt(i, xs[i])]
       IN call' = [fn |-> "_detect_columns", blocks |-> blks, page_width |-> width,
                   ret |-> _detect_columns(blks, width)]
  /\ UNCHANGED analyze_vars

\* the list returned is the list passed, with its blocks mutated
CallAssignToColumns ==
  /\ call = Idle
  /\ \E k \in 0..MaxAssignBlocks : \E es \in [1..k -> AssignExtents] :
       \E n \in 0..MaxBands : \E bands \in [1..n -> BandValues] :
         \E cols \in {None, Some(bands)} :
           LET blks == [i \in 1..k |-> BlockSpanning(i, es[i])]
           IN call' = [fn |-> "_assign_to_columns", blocks |-> blks, columns |-> cols,
                       ret |-> _assign_to_columns(blks, cols)]
  /\ UNCHANGED analyze_vars

CallDetermineReadingOrder ==
  /\ call = Idle
  /\ \E k \in 0..MaxOrderBlocks : \E ps \in [1..k -> OrderPlaces] :
       LET blks == [i \in 1..k |-> BlockPlaced(i, ps[i])]
       IN call' = [fn |-> "_determine_reading_order", blocks |-> blks,
                   ret |-> _determine_reading_order(blks)]
  /\ UNCHANGED analyze_vars

\* `after` is the list passed as the call leaves it
CallDetectHeadings ==
  /\ call = Idle
  /\ \E k \in 0..MaxHeadingBlocks : \E fs \in [1..k -> FontSizes \X FontWeights] :
       LET blks == [i \in 1..k |-> BlockInFont(i, fs[i])]
       IN call' = [fn |-> "_detect_headings", blocks |-> blks,
                   after |-> BlocksAfterHeadings(blks),
                   ret |-> _detect_headings(blks)]
  /\ UNCHANGED analyze_vars

\* font sizes of blocks whose spans carry no usable size (line 166 reads a
\* missing size as 0), next to a body size and a title size
UnsizedFontSizes == {-1, 0, 12, 18}

\* _detect_headings on blocks some of which have no positive font size
CallDetectHeadingsUnsized ==
  /\ call = Idle
  /\ \E k \in 0..MaxHeadingBlocks : \E fs \in [1..k -> UnsizedFontSizes \X FontWeights] :
       LET blks == [i \in 1..k |-> BlockInFont(i, fs[i])]
       IN call' = [fn |-> "_detect_headings", blocks |-> blks,
                   after |-> BlocksAfterHeadings(blks),
                   ret |-> _detect_headings(blks)]
  /\ UNCHANGED analyze_vars

\* a block as the tests of TestHeadingDetection build it: column 0, and its
\* place in the reading order
TestBlock(id, text, bbox, font_size, font_name, font_weight, reading_order) ==
  [TextBlock(id, text, 1, bbox, font_size, font_name, font_weight)
     EXCEPT !.column = 0, !.reading_order = reading_order]

\* the blocks of test_detect_headings_by_size
BlocksOfTestBySize ==
  <<TestBlock(1, "Body paragraph 1", <<10, 50, 200, 60>>, 12, "Arial", "normal", 1),
    TestBlock(2, "Body paragraph 2", <<10, 70, 200, 80>>, 12, "Arial", "normal", 2),
    TestBlock(3, "Main Title", <<10, 10, 200, 30>>, 18, "Arial", "bold", 0),
    TestBlock(4, "Section Heading", <<10, 35, 200, 45>>, 15, "Arial", "bold", 3)>>

\* the blocks of test_detect_headings_by_bold
BlocksOfTestByBold ==
  <<TestBlock(1, "Normal text", <<10, 50, 200, 60>>, 12, "Arial", "normal", 1),
    TestBlock(2, "Bold Heading", <<10, 10, 200, 20>>, 13, "Arial-Bold", "bold", 0)>>

\* the block of test_no_headings
BlocksOfTestNoHeadings ==
  <<TestBlock(1, "Body text", <<10, 10, 200, 20>>, 12, "Arial", "normal", 0)>>

\* _detect_headings called as the tests of TestHeadingDetection call it
CallDetectHeadingsOfTests ==
  /\ call = Idle
  /\ \E blks \in {BlocksOfTestBySize, BlocksOfTestByBold, BlocksOfTestNoHeadings} :
       call' = [fn |-> "_detect_headings", blocks |-> blks,
                after |-> BlocksAfterHeadings(blks),
                ret |-> _detect_headings(blks)]
  /\ UNCHANGED analyze_vars

\* the most headings _build_document_structure is called with
MaxHeadings == 5

\* the text of the i-th heading of a list: the texts of the tests of
\* TestDocumentStructure, and one more
HeadingTexts ==
  <<"Chapter 1", "Section 1.1", "Section 1.2", "Chapter", "Section", "Subsection", "Appendix">>

HeadingLevelsOfHeadings == {"H1", "H2", "H3"}

HeadingPages == {1, 2}

\* a detected heading, as the tests of TestDocumentStructure build it
HeadingAt(id, text, page, bbox, font_size, heading_level) ==
  [TextBlock(id, text, page, bbox, font_size, "Arial", "bold")
     EXCEPT !.is_heading = TRUE, !.heading_level = heading_level,
            !.column = 0, !.reading_order = id - 1]

CallBuildDocumentStructure ==
  /\ call = Idle
  /\ \E k \in 0..MaxHeadings : \E hp \in [1..k -> HeadingLevelsOfHeadings \X HeadingPages] :
       LET hs == [i \in 1..k |->
                   HeadingAt(i, HeadingTexts[i], hp[i][2], <<10, 10 * i, 200, 10 * i + 8>>, 15,
                             hp[i][1])]
       IN call' = [fn |-> "_build_document_structure", headings |-> hs, all_blocks |-> <<>>,
                   ret |-> _build_document_structure(hs, <<>>)]
  /\ UNCHANGED analyze_vars

\* the headings of test_build_simple_structure
HeadingsOfTestSimple ==
  <<HeadingAt(1, "Chapter 1", 1, <<10, 10, 200, 30>>, 18, "H1"),
    HeadingAt(2, "Section 1.1", 1, <<10, 40, 200, 50>>, 15, "H2"),
    HeadingAt(3, "Section 1.2", 2, <<10, 10, 200, 20>>, 15, "H2")>>

\* the headings of test_build_nested_structure
HeadingsOfTestNested ==
  <<HeadingAt(1, "Chapter", 1, <<10, 10, 200, 30>>, 18, "H1"),
    HeadingAt(2, "Section", 1, <<10, 40, 200, 50>>, 15, "H2"),
    HeadingAt(3, "Subsection", 1, <<10, 60, 200, 70>>, 13, "H3")>>

\* _build_document_structure called as the tests of TestDocumentStructure call it
CallBuildDocumentStructureOfTests ==
  /\ call = Idle
  /\ \E hs \in {HeadingsOfTestSimple, HeadingsOfTestNested} :
       call' = [fn |-> "_build_document_structure", headings |-> hs, all_blocks |-> <<>>,
                ret |-> _build_document_structure(hs, <<>>)]
  /\ UNCHANGED analyze_vars

\* the most pages _determine_overall_layout is called with
MaxLayoutPages == 3

\* a page entry as the tests of TestLayoutTypeDetection build it
PageOfLayout(page, layout) == [page |-> page, layout |-> layout]

CallDetermineOverallLayout ==
  /\ call = Idle
  /\ \E k \in 0..MaxLayoutPages : \E ls \in [1..k -> LayoutType] :
       LET pages == [i \in 1..k |-> PageOfLayout(i, ls[i])]
       IN call' = [fn |-> "_determine_overall_layout", pages |-> pages,
                   ret |-> _determine_overall_layout(pages)]
  /\ UNCHANGED analyze_vars

\* lines 107-116 and 136 for the blocks of one page: what the stages return,
\* and `blocks`, the list passed in, as the stages leave its blocks
PageStages(blks, page_width) ==
  LET detected == _detect_columns(blks, page_width)
      blocks_with_columns == _assign_to_columns(blks, detected.columns)
      ordered == _determine_reading_order(blocks_with_columns)
      found == _detect_headings(ordered)
      after == BlocksAfterHeadings(ordered)
  IN [layout_type |-> detected.layout,
      columns |-> detected.columns,
      blocks |-> Refresh(blks, after),
      ordered_blocks |-> after,
      headings |-> found,
      structure |-> _build_document_structure(found, after)]

\* the most blocks of the page _extract_text_blocks is called on
MaxExtractBlocks == 2

\* a span with nothing but its text, and one without a text
BareSpan == [text |-> <<"kept">>]

UntextedSpan == [size |-> 12, font |-> "Arial", bbox |-> <<50, 300, 150, 312>>]

\* blocks of get_text("dict"): text blocks of one span, an image block, a
\* block without type, a text block without lines, and a text block of three
\* lines, the second without spans
ExtractBlocks ==
  {BlockOfSpan(span) : span \in TextSpans \cup {BlankSpan, BareSpan, UntextedSpan}}
    \cup { [type |-> 1],
            [lines |-> << [spans |-> <<BareSpan>>] >>],
            [type |-> 0],
            [type |-> 0,
             lines |-> << [spans |-> <<BareSpan, BlankSpan>>],
                          [bbox |-> <<50, 10, 150, 28>>],
                          [spans |-> <<UntextedSpan, BareSpan>>] >>] }

CallExtractTextBlocks ==
  /\ call = Idle
  /\ \E k \in 0..MaxExtractBlocks : \E text_blocks \in [1..k -> ExtractBlocks] :
     \E page_number \in 1..MaxPages :
       call' = [fn |-> "_extract_text_blocks", text_blocks |-> text_blocks,
                page_num |-> page_number,
                ret |-> _extract_text_blocks(text_blocks, page_number, 0)]
  /\ UNCHANGED analyze_vars

\* the most blocks the stages are run twice on
MaxStageBlocks == 4

\* what the second run is given: new blocks of the same spans, the list of the
\* first run with its blocks as mutated, or the ordered list the first run returned
RerunInputs == {"fresh", "blocks", "ordered_blocks"}

\* the stages of analyze run on the blocks of a page, and then once more
CallStagesTwice ==
  /\ call = Idle
  /\ \E k \in 0..MaxStageBlocks : \E spans \in [1..k -> TextSpans], width \in PageWidths :
       \E rerun \in RerunInputs :
         LET blks == _extract_text_blocks([i \in 1..k |-> BlockOfSpan(spans[i])], 1, 0)
             first == PageStages(blks, width)
             again == IF rerun = "fresh" THEN blks
                      ELSE IF rerun = "blocks" THEN first.blocks
                      ELSE first.ordered_blocks
         IN call' = [fn |-> "stages", blocks |-> blks, page_width |-> width, rerun |-> rerun,
                     first |-> first, second |-> PageStages(again, width)]
  /\ UNCHANGED analyze_vars

Return ==
  /\ call # Idle
  /\ call' = Idle
  /\ UNCHANGED analyze_vars

NextUnit ==
  \/ CallExtractTextBlocks
  \/ CallClusterCoordinates
  \/ CallDetectColumns
  \/ CallAssignToColumns
  \/ CallDetermineReadingOrder
  \/ CallDetectHeadings
  \/ CallDetectHeadingsOfTests
  \/ CallDetectHeadingsUnsized
  \/ CallBuildDocumentStructure
  \/ CallBuildDocumentStructureOfTests
  \/ CallDetermineOverallLayout
  \/ CallStagesTwice
  \/ Return

SpecUnit == InitUnit /\ [][NextUnit]_vars

----------------------------------------------------------------------------
(* Direct calls of PDFPostProcessor.merge_cross_page_tables, as            *)
(* tests/test_postprocessor.py makes them.                                 *)

\* the most tables merge_cross_page_tables is called with
MaxTables == 3

\* header lists: none, blank ones, those of the first table of the tests, the
\* same in other case and with spaces around, and those of another table
HeaderLists ==
  { <<>>,
    <<<<>>, <<" ">>>>,
    <<<<"P", "r", "o", "t", "o", "c", "o", "l">>, <<"P", "o", "r", "t">>>>,
    <<<<" ", "p", "r", "o", "t", "o", "c", "o", "l">>, <<"P", "O", "R", "T", " ">>>>,
    <<<<"N", "a", "m", "e">>, <<"V", "a", "l", "u", "e">>>> }

\* headers and col_count of the tables, on the pages 5, 6 and 7: every header
\* list on two columns, and on three columns the blank headers and the three
\* headers of the tests
TableKinds ==
  {<<h, 2>> : h \in HeaderLists}
    \cup {<<h, 3>> : h \in { <<<<>>, <<" ">>>>,
                             << <<"N", "a", "m", "e">>, <<"V", "a", "l", "u", "e">>,
                                <<"D", "e", "s", "c", "r", "i", "p", "t", "i", "o", "n">> >> }}

\* a table as the extraction reports it: as many rows as its place in the list,
\* each row named by the table and its place in it
TableAt(id, page, headers, col_count) ==
  [id |-> id, page |-> page, headers |-> headers,
   rows |-> [j \in 1..id |-> <<id, j>>],
   col_count |-> col_count, row_count |-> id]

CallMergeCrossPageTables ==
  /\ call = Idle
  /\ \E k \in 0..MaxTables : \E ts \in [1..k -> {5, 6, 7} \X TableKinds] :
       LET tables == [i \in 1..k |-> TableAt(i, ts[i][1], ts[i][2][1], ts[i][2][2])]
       IN call' = [fn |-> "merge_cross_page_tables", tables |-> tables,
                   after |-> TablesAfterMerge(tables),
                   ret |-> merge_cross_page_tables(tables)]
  /\ UNCHANGED analyze_vars

NextPost ==
  \/ CallMergeCrossPageTables
  \/ Return

SpecPost == InitUnit /\ [][NextPost]_vars

----------------------------------------------------------------------------
(* Direct calls of MarkdownConverter._build_with_layout on a document of    *)
(* two pages, the text blocks on the first.                                *)

\* the most text blocks of the first page
MaxMdBlocks == 2

\* text, top (100 or 300; a block is 20 high) and heading level (0: no
\* heading) of a text block
MdBlockKinds ==
  ({<<"T", "e", "x", "t">>} \X {100, 300} \X (0..3)) \cup {<< <<" ">>, 100, 0 >>}

\* a block of the page as _block_to_dict writes it, the i-th in reading order
MdBlock(i, kind) ==
  [text |-> kind[1], page |-> 1, bbox |-> <<50, kind[2], 550, kind[2] + 20>>,
   is_heading |-> kind[3] > 0, heading_level |-> kind[3],
   column |-> 0, reading_order |-> i - 1]

MdTable ==
  [page |-> 1, headers |-> << <<"K">>, <<" ", "V">> >>,
   rows |-> << << <<"a">>, <<"b", " ">> >>, << <<"c">> >> >>]

\* no table; a table without bbox; one above the blocks, one between them and
\* one over the upper block; an empty one; a merged one without headers; one
\* of the second page
MdTables ==
  { <<>>,
    <<MdTable>>,
    <<MdTable @@ [bbox |-> <<50, 50, 550, 90>>]>>,
    <<MdTable @@ [bbox |-> <<50, 200, 550, 240>>]>>,
    <<MdTable @@ [bbox |-> <<50, 102, 550, 118>>]>>,
    <<[page |-> 1, headers |-> <<>>, rows |-> <<>>, bbox |-> <<50, 50, 550, 90>>]>>,
    <<[page |-> 1, headers |-> <<>>, rows |-> << << <<"a">>, <<"b">> >> >>,
       page_start |-> 1, page_end |-> 2, merged |-> TRUE,
       bbox |-> <<50, 200, 550, 240>>]>>,
    <<[page |-> 2] @@ MdTable @@ [bbox |-> <<50, 50, 550, 90>>]>> }

MdFormulas ==
  { <<>>,
    <<[page |-> 1, latex |-> <<"x">>, bbox |-> [kind |-> "list", at |-> <<50, 50, 90, 70>>]]>>,
    <<[page |-> 1, latex |-> <<"x">>, bbox |-> [kind |-> "dict", y0 |-> 200]]>>,
    <<[page |-> 1, latex |-> <<" ">>, bbox |-> [kind |-> "list", at |-> <<50, 50, 90, 70>>]]>>,
    <<[page |-> 1, latex |-> <<"a", "\n", "b">>]>> }

MdCodeBlocks ==
  { <<>>,
    <<[page |-> 1, language |-> <<"S", "h", "e", "l", "l">>, code |-> <<"l", "s", "\n">>,
       bbox |-> [kind |-> "list", at |-> <<50, 50, 550, 90>>]]>>,
    <<[page |-> 1, language |-> <<"c">>, code |-> <<"x">>]>> }

MdImages ==
  { <<>>,
    <<[page |-> 1, image_index |-> 0, format |-> <<"j", "p", "g">>, width |-> 10,
       height |-> 20, bbox |-> [kind |-> "list", at |-> <<50, 200, 550, 240>>]]>>,
    <<[page |-> 1]>> }

CallBuildWithLayout ==
  /\ call = Idle
  /\ \E k \in 0..MaxMdBlocks : \E kinds \in [1..k -> MdBlockKinds] :
     \E tables \in MdTables : \E formulas \in MdFormulas :
     \E code_blocks \in MdCodeBlocks : \E images \in MdImages :
       LET layout == [pages |-> << [page |-> 1,
                                    blocks |-> [i \in 1..k |-> MdBlock(i, kinds[i])]],
                                   [page |-> 2, blocks |-> <<>>] >>]
       IN call' = [fn |-> "_build_with_layout", layout |-> layout, tables |-> tables,
                   formulas |-> formulas, code_blocks |-> code_blocks, images |-> images,
                   items |-> ContentItemsOfPages(layout, tables, formulas, code_blocks, images),
                   ret |-> _build_with_layout(layout, tables, formulas, code_blocks, images)]
  /\ UNCHANGED analyze_vars

NextMd ==
  \/ CallBuildWithLayout
  \/ Return

SpecMd == InitUnit /\ [][NextMd]_vars

----------------------------------------------------------------------------
(* Properties.  What a property expects is written from the statement of   *)
(* the property, not with the operators of the methods above.              *)

RECURSIVE Concat(_)
Concat(ss) == IF ss = <<>> THEN <<>> ELSE Head(ss) \o Concat(Tail(ss))

\* the number of values in the first k lists of ss
RECURSIVE LenUpTo(_, _)
LenUpTo(ss, k) == IF k = 0 THEN 0 ELSE Len(ss[k]) + LenUpTo(ss, k - 1)

\* the list of ss that holds the i-th value of Concat(ss)
ListOfPosition(ss, i) ==
  CHOOSE k \in 1..Len(ss) : LenUpTo(ss, k - 1) < i /\ i <= LenUpTo(ss, k)

TestCoords == <<10, 12, 15, 100, 105, 110, 300, 305>>

\* C1: _determine_reading_order returns the blocks of a page sorted by column,
\* then by y0: of two blocks of one page, the one returned first has the lower
\* column, or the same column and a y0 that is not larger.
C1_ColumnMajorOrder ==
  call.fn = "_determine_reading_order" =>
    /\ Len(call.ret) = Len(call.blocks)
    /\ \A i, j \in 1..Len(call.ret) :
         (i < j /\ call.ret[i].page = call.ret[j].page) =>
           \/ call.ret[i].column < call.ret[j].column
           \/ /\ call.ret[i].column = call.ret[j].column
              /\ call.ret[i].bbox[2] <= call.ret[j].bbox[2]

\* a block low in column 0, passed second, is returned before a block at the top of column 1
C1_Witness ==
  /\ call.fn = "_determine_reading_order"
  /\ Len(call.blocks) = 2
  /\ call.blocks[1].page = 1 /\ call.blocks[1].column = 1 /\ call.blocks[1].bbox[2] = 10
  /\ call.blocks[2].page = 1 /\ call.blocks[2].column = 0 /\ call.blocks[2].bbox[2] = 100
  /\ call.ret[1].id = call.blocks[2].id
  /\ call.ret[2].id = call.blocks[1].id

\* C2: in the result of analyze, the reading_order of the i-th block listed for a
\* page is i - 1, on every page; so no block keeps the sentinel -1.
C2_ReadingOrderCountsFromZeroPerPage ==
  result.returned =>
    \A p \in 1..Len(result.pages) :
      \A i \in 1..Len(result.pages[p].blocks) :
        result.pages[p].blocks[i].reading_order = i - 1

\* a document of two pages of two blocks each, the first page's blocks reordered
C2_Witness ==
  /\ result.returned
  /\ Len(result.pages) = 2
  /\ Len(result.pages[1].blocks) = 2
  /\ Len(result.pages[2].blocks) = 2
  /\ result.pages[1].blocks[1].text # strip(SpansOfBlocks(doc[1].blocks)[1].text)
  /\ result.pages[2].blocks[2].reading_order = 1

\* C3: the clusters of _cluster_coordinates, put end to end, are the input list,
\* none is empty, and two neighbours of the input are in one cluster exactly when
\* they are at most `threshold` apart; no coordinate gives no cluster, one
\* coordinate one cluster, and the coordinates of the test three clusters of 3, 3, 2.
C3_ClustersSplitAtWideGaps ==
  call.fn = "_cluster_coordinates" =>
    /\ Concat(call.ret) = call.coords
    /\ \A k \in 1..Len(call.ret) : call.ret[k] # <<>>
    /\ \A i \in 1..(Len(call.coords) - 1) :
         (ListOfPosition(call.ret, i) = ListOfPosition(call.ret, i + 1))
           <=> (call.coords[i + 1] - call.coords[i] <= call.threshold)
    /\ (call.coords = <<>> => call.ret = <<>>)
    /\ (Len(call.coords) = 1 => call.ret = <<call.coords>>)
    /\ (call.coords = TestCoords /\ call.threshold = 20 =>
          [k \in 1..Len(call.ret) |-> Len(call.ret[k])] = <<3, 3, 2>>)

C3_Witness ==
  /\ call.fn = "_cluster_coordinates"
  /\ call.coords = TestCoords
  /\ call.threshold = 20
  /\ call.ret = <<<<10, 12, 15>>, <<100, 105, 110>>, <<300, 305>>>>

\* The left edges that start a cluster: those with no other left edge within
\* the gap threshold to their left; in ascending order.
ClusterEdges(blks) ==
  LET xs == {blks[i].bbox[1] : i \in 1..Len(blks)}
  IN SortedSet({x \in xs : \A y \in xs : y < x => x - y > COLUMN_GAP_THRESHOLD})

\* the candidate band of each cluster, as C4 states it
ExpectedCandidates(blks, page_width) ==
  LET edges == ClusterEdges(blks)
  IN [i \in 1..Len(edges) |->
        <<edges[i],
          IF i < Len(edges) THEN edges[i + 1] - COLUMN_GAP_THRESHOLD \div 2 ELSE page_width>>]

\* the candidates that are not narrower than the minimum column width, each as it was
ExpectedBands(blks, page_width) ==
  SelectSeq(ExpectedCandidates(blks, page_width), LAMBDA c : c[2] - c[1] >= MIN_COLUMN_WIDTH)

\* C4: with two clusters or more, the bands _detect_columns works with are the
\* candidates (left edge of cluster i, left edge of cluster i+1 less half the
\* gap threshold, or the page width for the last) that are at least 100 wide,
\* each with the bounds it had as a candidate; they are what is returned when
\* two or more are left.
C4_BandsFromClusterEdges ==
  (call.fn = "_detect_columns" /\ Len(ClusterEdges(call.blocks)) >= 2) =>
    /\ ~call.ret.columns.none =>
         call.ret.columns.list = ExpectedBands(call.blocks, call.page_width)
    /\ call.ret.columns.none => Len(ExpectedBands(call.blocks, call.page_width)) <= 1

\* clusters at 50, 350 and 450: the band of 350 is 85 wide and dropped, and the
\* bands of its two neighbours are returned with their own bounds
C4_Witness ==
  /\ call.fn = "_detect_columns"
  /\ call.page_width = 600
  /\ ClusterEdges(call.blocks) = <<50, 350, 450>>
  /\ call.ret.columns = Some(<<<<50, 335>>, <<450, 600>>>>)

\* C5: the layout _detect_columns returns follows from the number of bands left:
\* 1 single_column, 2 two_column, 3 three_column, more than 3 mixed; with one
\* cluster at most it is single_column without bands.
C5_LayoutFromBandCount ==
  call.fn = "_detect_columns" =>
    LET clusters == Len(ClusterEdges(call.blocks))
        bands == Len(ExpectedBands(call.blocks, call.page_width))
    IN /\ clusters <= 1 => call.ret = [layout |-> SINGLE_COLUMN, columns |-> None]
       /\ (clusters >= 2 /\ bands = 1) => call.ret.layout = SINGLE_COLUMN
       /\ (clusters >= 2 /\ bands = 2) => call.ret.layout = TWO_COLUMN
       /\ (clusters >= 2 /\ bands = 3) => call.ret.layout = THREE_COLUMN
       /\ (clusters >= 2 /\ bands > 3) => call.ret.layout = MIXED

\* four columns on one page
C5_Witness ==
  /\ call.fn = "_detect_columns"
  /\ Len(ExpectedBands(call.blocks, call.page_width)) = 4
  /\ call.ret.layout = MIXED
  /\ Len(call.ret.columns.list) = 4

\* C6: the layout of a page entry of analyze is single_column, two_column or
\* three_column, never mixed.
C6_NoMixedPage ==
  \A p \in 1..Len(pages_analysis) :
    pages_analysis[p].layout \in {SINGLE_COLUMN, TWO_COLUMN, THREE_COLUMN}

\* C7: in a band list _detect_columns returns, every band has x_left < x_right
\* and every band lies wholly to the left of the bands after it; and
\* single_column is returned without bands.
C7_BandsDisjointAscending ==
  call.fn = "_detect_columns" =>
    /\ ~call.ret.columns.none =>
         LET bands == call.ret.columns.list
         IN /\ bands # <<>>
            /\ \A i \in 1..Len(bands) : bands[i][1] < bands[i][2]
            /\ \A i, j \in 1..Len(bands) : i < j => bands[i][2] < bands[j][1]
    /\ call.ret.layout = SINGLE_COLUMN => call.ret.columns = None

\* three bands are returned, the page having four clusters
C7_Witness ==
  /\ call.fn = "_detect_columns"
  /\ Len(ClusterEdges(call.blocks)) = 4
  /\ ~call.ret.columns.none
  /\ Len(call.ret.columns.list) = 3

\* the bands, by their 1-based index, whose closed interval holds the centre of the block
BandsHolding(block, bands) ==
  {k \in 1..Len(bands) :
     /\ 2 * bands[k][1] <= block.bbox[1] + block.bbox[3]
     /\ block.bbox[1] + block.bbox[3] <= 2 * bands[k][2]}

\* C8: _assign_to_columns gives column 0 to every block when there are no
\* bands; else the index of the first band whose closed interval holds the
\* block's centre, and 0 when none does.
C8_FirstBandHoldingCentre ==
  call.fn = "_assign_to_columns" =>
    /\ Len(call.ret) = Len(call.blocks)
    /\ \A i \in 1..Len(call.blocks) :
         LET holding == BandsHolding(call.blocks[i], call.columns.list)
             column == call.ret[i].column
         IN /\ call.ret[i].id = call.blocks[i].id
            /\ (call.columns.none \/ call.columns.list = <<>>) => column = 0
            /\ holding = {} => column = 0
            /\ holding # {} => (column + 1 \in holding /\ \A k \in holding : column + 1 <= k)

\* the call of test_assign_two_columns, and a centre on the edge the two bands share
C8_Witness ==
  /\ call.fn = "_assign_to_columns"
  /\ call.columns = Some(<<<<0, 300>>, <<300, 600>>>>)
  /\ Len(call.blocks) = 2
  /\ call.blocks[1].bbox[1] + call.blocks[1].bbox[3] = 2 * 425
  /\ call.blocks[2].bbox[1] + call.blocks[2].bbox[3] = 2 * 300
  /\ call.ret[1].column = 1
  /\ call.ret[2].column = 0

\* the blocks with a positive font size, by their index
PositiveSized(blks) == {i \in 1..Len(blks) : blks[i].font_size > 0}

\* the element at index count // 2 of the ascending positive font sizes: at most
\* count // 2 of them are smaller, and more than count // 2 are not larger
MedianOfPositive(blks) ==
  LET count == Cardinality(PositiveSized(blks))
  IN CHOOSE m \in {blks[i].font_size : i \in PositiveSized(blks)} :
       /\ Cardinality({i \in PositiveSized(blks) : blks[i].font_size < m}) <= count \div 2
       /\ Cardinality({i \in PositiveSized(blks) : blks[i].font_size <= m}) > count \div 2

\* font_size / median >= num / 10
RatioAtLeast(block, median, num) == 10 * block.font_size >= num * median

\* C9: a block is returned by _detect_headings exactly when its size is at least
\* 1.2 times the median and at least 12, or it is bold and its size is at least
\* 1.1 times the median.
C9_HeadingCriteria ==
  (call.fn = "_detect_headings" /\ PositiveSized(call.blocks) # {}) =>
    LET median == MedianOfPositive(call.blocks)
    IN \A i \in 1..Len(call.blocks) :
         (\E j \in 1..Len(call.ret) : call.ret[j].id = call.blocks[i].id)
           <=> \/ RatioAtLeast(call.blocks[i], median, 12) /\ call.blocks[i].font_size >= 12
               \/ call.blocks[i].font_weight = "bold" /\ RatioAtLeast(call.blocks[i], median, 11)

\* four blocks of positive size, the median taken at index 2; the one heading
\* is smaller than 12 and qualifies as bold
C9_Witness ==
  /\ call.fn = "_detect_headings"
  /\ Len(call.blocks) = 4
  /\ Cardinality(PositiveSized(call.blocks)) = 4
  /\ MedianOfPositive(call.blocks) = 8
  /\ Len(call.ret) = 1
  /\ call.ret[1].font_size = 10
  /\ call.ret[1].font_weight = "bold"

\* C10: a returned heading is H1 when its size is at least 1.5 times the median,
\* H2 when at least 1.3 and less than 1.5 times, H3 below that; and it is flagged.
C10_LevelFromRatio ==
  call.fn = "_detect_headings" =>
    \A j \in 1..Len(call.ret) :
      LET median == MedianOfPositive(call.blocks)
          h == call.ret[j]
      IN /\ h.is_heading
         /\ RatioAtLeast(h, median, 15) => h.heading_level = "H1"
         /\ (RatioAtLeast(h, median, 13) /\ ~RatioAtLeast(h, median, 15)) => h.heading_level = "H2"
         /\ ~RatioAtLeast(h, median, 13) => h.heading_level = "H3"

\* a bold block of size 11 over a median of 8 qualifies as bold only and is H2
C10_Witness ==
  /\ call.fn = "_detect_headings"
  /\ PositiveSized(call.blocks) # {}
  /\ MedianOfPositive(call.blocks) = 8
  /\ \E j \in 1..Len(call.ret) :
       /\ call.ret[j].font_size = 11
       /\ call.ret[j].font_weight = "bold"
       /\ call.ret[j].heading_level = "H2"

\* the (font size, font weight) of each block of a list, in order
FontsOf(blks) == [i \in 1..Len(blks) |-> <<blks[i].font_size, blks[i].font_weight>>]

\* C11: for the blocks {12 normal, 12 normal, 18 bold, 15 bold} _detect_headings
\* returns exactly two headings, the block of size 18 at H1 and the block of
\* size 15 at H2.
C11_TwoHeadingsBySize ==
  (/\ call.fn = "_detect_headings"
   /\ FontsOf(call.blocks) = <<<<12, "normal">>, <<12, "normal">>, <<18, "bold">>, <<15, "bold">>>>)
    => /\ Len(call.ret) = 2
       /\ \E j \in 1..2 : call.ret[j].font_size = 18 /\ call.ret[j].heading_level = "H1"
       /\ \E j \in 1..2 : call.ret[j].font_size = 15 /\ call.ret[j].heading_level = "H2"

\* C12: for the blocks {12 normal, 13 bold} _detect_headings returns exactly one
\* heading, the bold block, at level H3.
C12_OneHeadingByBold ==
  (/\ call.fn = "_detect_headings"
   /\ FontsOf(call.blocks) = <<<<12, "normal">>, <<13, "bold">>>>)
    => /\ Len(call.ret) = 1
       /\ call.ret[1].font_size = 13
       /\ call.ret[1].font_weight = "bold"
       /\ call.ret[1].heading_level = "H3"

\* C13: a block whose font size is zero or negative stays in the block list, is
\* never returned as a heading and stays unflagged at level BODY; it does not
\* count for the median, so every returned heading is at least 1.1 times the
\* median of the positive sizes; and when no block has a positive font size,
\* nothing is returned and no block is flagged.
C13_UnsizedBlocksAreNoHeadings ==
  call.fn = "_detect_headings" =>
    /\ Len(call.after) = Len(call.blocks)
    /\ \A i \in 1..Len(call.blocks) :
         /\ call.after[i].id = call.blocks[i].id
         /\ call.blocks[i].font_size <= 0 =>
              /\ \A j \in 1..Len(call.ret) : call.ret[j].id # call.blocks[i].id
              /\ ~call.after[i].is_heading
              /\ call.after[i].heading_level = "BODY"
    /\ PositiveSized(call.blocks) # {} =>
         \A j \in 1..Len(call.ret) :
           RatioAtLeast(call.ret[j], MedianOfPositive(call.blocks), 11)
    /\ PositiveSized(call.blocks) = {} =>
         /\ call.ret = <<>>
         /\ \A i \in 1..Len(call.after) : ~call.after[i].is_heading

\* a bold block of negative size first in the list, before three blocks of
\* sizes 12, 12 and 18: the median is 12 and the block of size 18 is the one heading
C13_Witness ==
  /\ call.fn = "_detect_headings"
  /\ Len(call.blocks) = 4
  /\ call.blocks[1].font_size < 0
  /\ call.blocks[1].font_weight = "bold"
  /\ Cardinality(PositiveSized(call.blocks)) = 3
  /\ MedianOfPositive(call.blocks) = 12
  /\ Len(call.ret) = 1
  /\ call.ret[1].font_size = 18
  /\ ~call.after[1].is_heading

\* the children of a node of the structure: none when it has no list of them
Children(node) == IF "subsections" \in DOMAIN node THEN node.subsections ELSE <<>>

\* node is the node made of a heading, at a level
IsNodeOf(node, heading, level) ==
  /\ node.title = heading.text
  /\ node.level = level
  /\ node.page = heading.page

\* the nodes of a structure down to the third level
NodesOf(sections) ==
  LET first == {sections[t] : t \in 1..Len(sections)}
      second == UNION {{Children(n)[c] : c \in 1..Len(Children(n))} : n \in first}
      third == UNION {{Children(n)[c] : c \in 1..Len(Children(n))} : n \in second}
  IN first \cup second \cup third

\* the heading of index i is a direct child, at a level, of the node of the heading of index p
IsChildOf(sections, hs, i, level, p) ==
  \E n \in NodesOf(sections) :
    /\ n.title = hs[p].text
    /\ \E c \in 1..Len(Children(n)) : IsNodeOf(Children(n)[c], hs[i], level)

\* the heading of index i is a top-level section, at a level
IsTopLevel(sections, hs, i, level) ==
  \E t \in 1..Len(sections) : IsNodeOf(sections[t], hs[i], level)

\* the index of the last heading of a level before index i and after index from; 0 when none
LastBefore(hs, i, level, from) ==
  LET found == {j \in (from + 1)..(i - 1) : hs[j].heading_level = level}
  IN IF found = {} THEN 0 ELSE CHOOSE j \in found : \A k \in found : k <= j

\* C14: every H1 heading is a top-level section; every H2 heading is a child of
\* the last H1 before it when there is one, and a top-level section otherwise;
\* [H1 Chapter 1, H2 Section 1.1, H2 Section 1.2] gives one top-level node
\* Chapter 1 with the subsections Section 1.1, Section 1.2 in that order.
C14_H1TopLevelH2UnderLastH1 ==
  call.fn = "_build_document_structure" =>
    LET hs == call.headings
        sections == call.ret.sections
    IN /\ \A i \in 1..Len(hs) :
            hs[i].heading_level = "H1" => IsTopLevel(sections, hs, i, 1)
       /\ \A i \in 1..Len(hs) :
            hs[i].heading_level = "H2" =>
              LET h1 == LastBefore(hs, i, "H1", 0)
              IN IF h1 # 0
                 THEN /\ hs[h1].heading_level = "H1"
                      /\ IsTopLevel(sections, hs, h1, 1)
                      /\ IsChildOf(sections, hs, i, 2, h1)
                      /\ ~IsTopLevel(sections, hs, i, 2)
                 ELSE IsTopLevel(sections, hs, i, 2)
       /\ [i \in 1..Len(hs) |-> <<hs[i].text, hs[i].heading_level>>]
            = <<<<"Chapter 1", "H1">>, <<"Section 1.1", "H2">>, <<"Section 1.2", "H2">>>>
          => /\ Len(sections) = 1
             /\ sections[1].title = "Chapter 1"
             /\ [c \in 1..Len(sections[1].subsections) |-> sections[1].subsections[c].title]
                  = <<"Section 1.1", "Section 1.2">>

\* the headings of test_build_simple_structure, on pages 1, 1 and 2, have been
\* built into one section with two subsections
C14_Witness ==
  /\ call.fn = "_build_document_structure"
  /\ [i \in 1..Len(call.headings) |->
        <<call.headings[i].text, call.headings[i].heading_level, call.headings[i].page>>]
       = <<<<"Chapter 1", "H1", 1>>, <<"Section 1.1", "H2", 1>>, <<"Section 1.2", "H2", 2>>>>
  /\ Len(call.ret.sections) = 1
  /\ Len(call.ret.sections[1].subsections) = 2
  /\ call.ret.sections[1].subsections[2].page = 2

\* the levels of the headings of a list, in order
LevelsOf(hs) == [i \in 1..Len(hs) |-> hs[i].heading_level]

\* C15: every H3 heading is a child of the last H2 seen since the last H1 when
\* there is one, otherwise a child of the last H1, otherwise a top-level
\* section; an H3 that follows an H1 with no H2 in between is under no H2.
C15_H3UnderCurrentH2ElseH1ElseTop ==
  call.fn = "_build_document_structure" =>
    LET hs == call.headings
        sections == call.ret.sections
    IN \A i \in 1..Len(hs) :
         hs[i].heading_level = "H3" =>
           LET h1 == LastBefore(hs, i, "H1", 0)
               h2 == LastBefore(hs, i, "H2", h1)
           IN /\ h2 # 0 => IsChildOf(sections, hs, i, 3, h2)
              /\ (h2 = 0 /\ h1 # 0) => IsChildOf(sections, hs, i, 3, h1)
              /\ (h2 = 0 /\ h1 = 0) => IsTopLevel(sections, hs, i, 3)
              /\ h2 = 0 =>
                   \A n \in NodesOf(sections) :
                     n.level = 2 =>
                       \A c \in 1..Len(Children(n)) : ~IsNodeOf(Children(n)[c], hs[i], 3)

\* H1, H2, H1, H3: the H3 is the one child of the second H1, and the H2 of the
\* first section has no child
C15_Witness ==
  /\ call.fn = "_build_document_structure"
  /\ LevelsOf(call.headings) = <<"H1", "H2", "H1", "H3">>
  /\ Len(call.ret.sections) = 2
  /\ Len(call.ret.sections[2].subsections) = 1
  /\ call.ret.sections[2].subsections[1].title = call.headings[4].text
  /\ call.ret.sections[1].subsections[1].subsections = <<>>

\* depth-first pre-order traversal of a list of nodes: a node, then its
\* children's traversal, then the nodes after it; of each node the title, the
\* level and the page
RECURSIVE Preorder(_)
Preorder(nodes) ==
  IF nodes = <<>> THEN <<>>
  ELSE <<[title |-> Head(nodes).title, level |-> Head(nodes).level, page |-> Head(nodes).page]>>
         \o Preorder(Children(Head(nodes))) \o Preorder(Tail(nodes))

\* the number of a heading level
LevelNumber(level) == IF level = "H1" THEN 1 ELSE IF level = "H2" THEN 2 ELSE 3

\* C16: for every sequence of headings of levels H1, H2, H3, the depth-first
\* pre-order traversal of the tree _build_document_structure returns visits the
\* headings in the order of the sequence, each once, with its title, level and page.
C16_PreorderIsInputOrder ==
  call.fn = "_build_document_structure" =>
    Preorder(call.ret.sections) =
      [i \in 1..Len(call.headings) |->
         [title |-> call.headings[i].text,
          level |-> LevelNumber(call.headings[i].heading_level),
          page |-> call.headings[i].page]]

\* H2, H3, H1, H3, H2: an orphan H2 with a child, then a section whose children
\* are an H3 and an H2; the traversal has the five headings
C16_Witness ==
  /\ call.fn = "_build_document_structure"
  /\ LevelsOf(call.headings) = <<"H2", "H3", "H1", "H3", "H2">>
  /\ Len(call.ret.sections) = 2
  /\ Len(call.ret.sections[1].subsections) = 1
  /\ Len(call.ret.sections[2].subsections) = 2
  /\ Len(Preorder(call.ret.sections)) = 5

\* C17: every node of the structure _build_document_structure returns, at each
\* of the levels 1, 2 and 3, has the fields title, level, page and subsections,
\* and subsections is a list (empty for a leaf).
C17_NodesHaveOneShape ==
  call.fn = "_build_document_structure" =>
    \A n \in NodesOf(call.ret.sections) :
      /\ DOMAIN n = {"title", "level", "page", "subsections"}
      /\ n.level \in {1, 2, 3}
      /\ DOMAIN n.subsections = 1..Len(n.subsections)

\* every node of a list is of a level 1, 2 or 3 greater than its parent's, and
\* so are the nodes under it
RECURSIVE LevelsGrow(_, _)
LevelsGrow(nodes, parent_level) ==
  \A k \in 1..Len(nodes) :
    /\ nodes[k].level \in {1, 2, 3}
    /\ nodes[k].level > parent_level
    /\ LevelsGrow(Children(nodes[k]), nodes[k].level)

\* the number of levels of a list of nodes
RECURSIVE Depth(_)
Depth(nodes) ==
  IF nodes = <<>> THEN 0
  ELSE LET below == {Depth(Children(nodes[k])) : k \in 1..Len(nodes)}
       IN 1 + CHOOSE d \in below : \A e \in below : e <= d

\* C18: in the tree _build_document_structure returns, every child is of a
\* level greater than its parent's: level-1 nodes are at the top level only,
\* the children of a level-1 node are of level 2 or 3, the children of a
\* level-2 node are of level 3, and the tree has three levels at most.
C18_ChildLevelsGrow ==
  call.fn = "_build_document_structure" =>
    LET sections == call.ret.sections
    IN /\ LevelsGrow(sections, 0)
       /\ Depth(sections) <= 3
       /\ \A t \in 1..Len(sections) :
            \A c \in 1..Len(Children(sections[t])) :
              LET child == Children(sections[t])[c]
              IN /\ child.level # 1
                 /\ sections[t].level = 1 => child.level \in {2, 3}
                 /\ sections[t].level = 2 => child.level = 3
                 /\ \A g \in 1..Len(Children(child)) :
                      /\ child.level = 2
                      /\ Children(child)[g].level = 3

\* H1, H3, H2, H3: the section has an H3 child and an H2 child, and the H2 has
\* an H3 child: three levels
C18_Witness ==
  /\ call.fn = "_build_document_structure"
  /\ LevelsOf(call.headings) = <<"H1", "H3", "H2", "H3">>
  /\ Len(call.ret.sections) = 1
  /\ Len(call.ret.sections[1].subsections) = 2
  /\ call.ret.sections[1].subsections[1].level = 3
  /\ call.ret.sections[1].subsections[2].level = 2
  /\ Depth(call.ret.sections) = 3

\* the layouts that occur in a list of page entries
LayoutsOf(pages) == {pages[i].layout : i \in 1..Len(pages)}

\* C19: _determine_overall_layout returns the pages' layout when all pages have
\* the same one, mixed when two pages differ, whichever layout is the most
\* frequent, and single_column for no pages.
C19_OverallLayout ==
  call.fn = "_determine_overall_layout" =>
    /\ call.pages = <<>> => call.ret = "single_column"
    /\ Cardinality(LayoutsOf(call.pages)) = 1 => call.ret \in LayoutsOf(call.pages)
    /\ Cardinality(LayoutsOf(call.pages)) >= 2 => call.ret = "mixed"

\* the pages of test_determine_mixed_layout: two of three are two_column, and
\* the document is mixed
C19_Witness ==
  /\ call.fn = "_determine_overall_layout"
  /\ [i \in 1..Len(call.pages) |-> call.pages[i].layout]
       = <<"single_column", "two_column", "two_column">>
  /\ call.ret = "mixed"

\* the place of the first span of a text in the spans of a page
FirstSpanOf(spans, text) ==
  CHOOSE i \in 1..Len(spans) :
    strip(spans[i].text) = text /\ \A j \in 1..(i - 1) : strip(spans[j].text) # text

\* C20: the heading list analyze returns is the pages' heading lists put end to
\* end, the pages in ascending order; the headings of a page are in ascending
\* reading_order; total_headings is the length of the list; and the structure
\* is built from this list.
C20_HeadingsInPageAndReadingOrder ==
  result.returned =>
    /\ \A p \in 1..Len(result.pages) : result.pages[p].page = p
    /\ result.headings = Concat([p \in 1..Len(result.pages) |-> result.pages[p].headings])
    /\ \A p \in 1..Len(result.pages) :
         \A i, j \in 1..Len(result.pages[p].headings) :
           i < j => result.pages[p].headings[i].reading_order
                      < result.pages[p].headings[j].reading_order
    /\ result.total_headings = Len(result.headings)
    /\ Preorder(result.structure.sections) =
         [i \in 1..Len(result.headings) |->
            [title |-> result.headings[i].text,
             level |-> result.headings[i].heading_level,
             page |-> result.headings[i].page]]

\* a page whose two headings were extracted in the other order: the heading of
\* the right column was extracted before the title of the left column, and the
\* title is the first heading of the result
C20_Witness ==
  /\ result.returned
  /\ result.total_headings = 2
  /\ Len(result.pages[1].headings) = 2
  /\ result.headings[1].text = <<"title left">>
  /\ result.headings[2].text = <<"head right">>
  /\ FirstSpanOf(SpansOfBlocks(doc[1].blocks), <<"head right">>)
       < FirstSpanOf(SpansOfBlocks(doc[1].blocks), <<"title left">>)
  /\ Len(result.structure.sections) >= 1

\* C21: an empty block list, and blocks that all have one bounding box, give
\* single_column without bands; an empty block list, and blocks none of which
\* has a positive font size, give no headings; an empty heading list gives a
\* structure whose sections list is empty.
C21_DegenerateInputsGiveMinimalResult ==
  /\ (/\ call.fn = "_detect_columns"
      /\ \A i, j \in 1..Len(call.blocks) : call.blocks[i].bbox = call.blocks[j].bbox)
       => call.ret = [layout |-> "single_column", columns |-> None]
  /\ (/\ call.fn = "_detect_headings"
      /\ \A i \in 1..Len(call.blocks) : call.blocks[i].font_size <= 0)
       => call.ret = <<>>
  /\ (call.fn = "_build_document_structure" /\ call.headings = <<>>)
       => call.ret = [sections |-> <<>>]

\* three blocks in one place, at the right edge of the page, where a band
\* would be narrower than the minimum column width
C21_Witness ==
  /\ call.fn = "_detect_columns"
  /\ Len(call.blocks) = 3
  /\ \A i \in 1..3 : call.blocks[i].bbox = call.blocks[1].bbox
  /\ call.page_width - call.blocks[1].bbox[1] < 100
  /\ call.ret.layout = "single_column"
  /\ call.ret.columns = None

\* C22: the stages run twice on the same blocks give the same result both
\* times: the same layout and bands, the same blocks in the same order with the
\* same column, reading_order and heading fields, the same headings and the
\* same tree; also when the second run is given the blocks as the first run
\* left them.
C22_StagesRunTwiceGiveTheSame ==
  call.fn = "stages" =>
    /\ call.second.layout_type = call.first.layout_type
    /\ call.second.columns = call.first.columns
    /\ call.second.ordered_blocks = call.first.ordered_blocks
    /\ call.second.headings = call.first.headings
    /\ call.second.structure = call.first.structure

\* four blocks in two columns, one of them a heading, two with the same top in
\* one column; the first run has reordered them, and the second run was given
\* the ordered list of the first
C22_Witness ==
  /\ call.fn = "stages"
  /\ call.rerun = "ordered_blocks"
  /\ Len(call.blocks) = 4
  /\ call.first.layout_type = "two_column"
  /\ Len(call.first.headings) = 1
  /\ call.first.ordered_blocks[1].id # call.blocks[1].id
  /\ \E i \in 1..3 :
       /\ call.first.ordered_blocks[i].column = call.first.ordered_blocks[i + 1].column
       /\ call.first.ordered_blocks[i].bbox[2] = call.first.ordered_blocks[i + 1].bbox[2]
  /\ call.second.ordered_blocks = call.first.ordered_blocks
  /\ Len(call.second.structure.sections) >= 1

\* what the stages give for each page of the document when its spans are
\* analysed on their own, as the only input
PagesAlone ==
  [p \in 1..Len(doc) |-> PageStages(_extract_text_blocks(doc[p].blocks, p, 0), doc[p].width)]

\* C23: what analyze reports for a page (layout, bands, the blocks with their
\* column and reading order, the headings with their level) is what the stages
\* give for that page's blocks and width alone, whatever the other pages hold;
\* and the document's layout, headings and structure are those of the pages'
\* own results taken in page order.
C23_PageResultOfThePageAlone ==
  result.returned =>
    LET alone == PagesAlone
        headings_alone == Concat([p \in 1..Len(alone) |-> alone[p].headings])
    IN /\ Len(result.pages) = Len(alone)
       /\ \A p \in 1..Len(result.pages) :
            /\ result.pages[p].layout = alone[p].layout_type
            /\ result.pages[p].column_bounds = alone[p].columns
            /\ result.pages[p].blocks = BlocksToDicts(alone[p].ordered_blocks)
            /\ result.pages[p].headings = BlocksToDicts(alone[p].headings)
       /\ result.layout_type =
            _determine_overall_layout([p \in 1..Len(alone) |-> [layout |-> alone[p].layout_type]])
       /\ result.headings = BlocksToDicts(headings_alone)
       /\ result.structure = _build_document_structure(headings_alone, <<>>)

\* two body blocks on the first page and a single larger block on the second:
\* on its own the second page has no heading, and none is reported for it
C23_Witness ==
  /\ result.returned
  /\ Len(result.pages) = 2
  /\ Len(result.pages[1].blocks) = 2
  /\ \A i \in 1..2 : result.pages[1].blocks[i].font_size = 12
  /\ Len(result.pages[2].blocks) = 1
  /\ result.pages[2].blocks[1].font_size = 18
  /\ result.pages[2].headings = <<>>
  /\ result.total_headings = 0

\* the places of a list of tables in the order of their pages, tables of one
\* page in the order of the list
PageOrder(tables) ==
  SortSeq([i \in 1..Len(tables) |-> i],
          LAMBDA i, j : \/ tables[i].page < tables[j].page
                        \/ tables[i].page = tables[j].page /\ i < j)

\* a table has no headers, or only headers without a visible character
BlankHeaders(table) ==
  \A h \in 1..Len(table.headers) :
    \A c \in 1..Len(table.headers[h]) : table.headers[h][c] \in {" ", "\t", "\n"}

\* for every table of the output the places, in page order, of the tables of
\* the input whose rows it holds
PartsOf(tables, out) ==
  LET order == PageOrder(tables)
  IN [o \in 1..Len(out) |->
        SelectSeq(order, LAMBDA i : \E r \in 1..Len(out[o].rows) :
                                      out[o].rows[r] = tables[i].rows[1])]

\* C24: a table that lies on the page after the table before it (in page
\* order), has the same col_count and has no headers or blank ones only is
\* merged with it: one table of the output holds the rows of both, one after
\* the other, and has merged = true.  A table of the output made of several
\* has the rows of its parts in page order, their row_counts added up, the
\* page of the first as page_start and the page of the last as page_end; so
\* three tables on three pages in a row become one.
C24_ContinuationIsMerged ==
  call.fn = "merge_cross_page_tables" =>
    LET tables == call.tables
        order == PageOrder(tables)
    IN /\ \A k \in 2..Len(order) :
            LET a == tables[order[k - 1]]
                b == tables[order[k]]
            IN (b.page = a.page + 1 /\ b.col_count = a.col_count /\ BlankHeaders(b)) =>
                 \E o \in 1..Len(call.ret) :
                   /\ \E from \in 0..(Len(call.ret[o].rows) - Len(a.rows) - Len(b.rows)) :
                        SubSeq(call.ret[o].rows, from + 1, from + Len(a.rows) + Len(b.rows))
                          = a.rows \o b.rows
                   /\ "merged" \in DOMAIN call.ret[o]
                   /\ call.ret[o].merged = TRUE
       /\ \A o \in 1..Len(call.ret) :
            LET parts == PartsOf(tables, call.ret)[o]
            IN Len(parts) >= 2 =>
                 /\ call.ret[o].rows = Concat([n \in 1..Len(parts) |-> tables[parts[n]].rows])
                 /\ call.ret[o].row_count = LenUpTo([n \in 1..Len(parts) |-> tables[parts[n]].rows],
                                                    Len(parts))
                 /\ call.ret[o].page_start = tables[parts[1]].page
                 /\ call.ret[o].page_end = tables[parts[Len(parts)]].page
                 /\ call.ret[o].merged = TRUE

\* three tables on the pages 6, 5 and 7, passed in that order, the ones on
\* pages 6 and 7 with blank headers: one table of six rows from page 5 to page 7
C24_Witness ==
  /\ call.fn = "merge_cross_page_tables"
  /\ [i \in 1..Len(call.tables) |-> call.tables[i].page] = <<6, 5, 7>>
  /\ call.tables[2].headers # <<>>
  /\ ~BlankHeaders(call.tables[2])
  /\ Len(call.ret) = 1
  /\ call.ret[1].rows = call.tables[2].rows \o call.tables[1].rows \o call.tables[3].rows
  /\ call.ret[1].row_count = 6
  /\ call.ret[1].page_start = 5
  /\ call.ret[1].page_end = 7
  /\ call.ret[1].merged

\* C25: two tables are merged only if the second lies on the page right after
\* the last page of the first and both have the same col_count.  Every table
\* of the input is part of exactly one table of the output, and neighbouring
\* parts of one table of the output lie on pages in a row and have the same
\* col_count; so tables on pages that are not in a row, or with different
\* col_counts, are separate tables of the output, whatever their headers.
C25_MergedOnlyOnNextPageWithSameColumns ==
  call.fn = "merge_cross_page_tables" =>
    LET tables == call.tables
        parts == PartsOf(tables, call.ret)
    IN /\ \A i \in 1..Len(tables) :
            Cardinality({o \in 1..Len(call.ret) :
                           \E n \in 1..Len(parts[o]) : parts[o][n] = i}) = 1
       /\ \A o \in 1..Len(call.ret) :
            /\ \A n \in 2..Len(parts[o]) :
                 /\ tables[parts[o][n]].page = tables[parts[o][n - 1]].page + 1
                 /\ tables[parts[o][n]].col_count = tables[parts[o][n - 1]].col_count
            /\ \A n, m \in 1..Len(parts[o]) :
                 n # m => /\ tables[parts[o][n]].col_count = tables[parts[o][m]].col_count
                          /\ tables[parts[o][n]].page # tables[parts[o][m]].page
            /\ Len(parts[o]) = 1 =>
                 /\ call.ret[o].rows = tables[parts[o][1]].rows
                 /\ call.ret[o].row_count = tables[parts[o][1]].row_count
                 /\ call.ret[o].page_start = tables[parts[o][1]].page
                 /\ call.ret[o].page_end = tables[parts[o][1]].page
                 /\ "merged" \notin DOMAIN call.ret[o]

\* a table on page 5 and one with blank headers and the same col_count on
\* page 7: two tables come back, none of them merged
C25_Witness ==
  /\ call.fn = "merge_cross_page_tables"
  /\ Len(call.tables) = 2
  /\ call.tables[1].page = 5
  /\ call.tables[2].page = 7
  /\ call.tables[1].col_count = call.tables[2].col_count
  /\ call.tables[2].headers # <<>>
  /\ BlankHeaders(call.tables[2])
  /\ Len(call.ret) = 2
  /\ \A o \in 1..2 : /\ "merged" \notin DOMAIN call.ret[o]
                      /\ call.ret[o].rows = call.tables[o].rows

\* the number of rows of a list of tables, counted in the lists of rows
TotalRows(tables) == LenUpTo([i \in 1..Len(tables) |-> tables[i].rows], Len(tables))

\* C30: merge_cross_page_tables leaves its input as it was: after the call
\* every table of the input has the rows and the row_count it had before,
\* and the tables of the output have together as many rows as the tables of
\* the input.
C30_InputUnchanged ==
  call.fn = "merge_cross_page_tables" =>
    /\ Len(call.after) = Len(call.tables)
    /\ \A i \in 1..Len(call.tables) :
         /\ call.after[i].rows = call.tables[i].rows
         /\ call.after[i].row_count = call.tables[i].row_count
    /\ TotalRows(call.ret) = TotalRows(call.tables)

\* C26: with a layout, every table, formula, code block and image that has a
\* bbox comes in the content of its page before every text block of the page
\* whose top lies lower (has the larger y) than the top of the item.
C26_BoxedItemsBeforeLowerText ==
  call.fn = "_build_with_layout" =>
    \A p \in 1..Len(call.items) :
      \A i, j \in 1..Len(call.items[p]) :
        (/\ call.items[p][i].type # "text"
         /\ call.items[p][i].y_pos # NoPosition
         /\ call.items[p][j].type = "text"
         /\ call.items[p][j].y_pos > call.items[p][i].y_pos) => i < j

\* C27: _determine_reading_order returns the blocks it was given, each one
\* once, and changes nothing of a block but its reading_order; two blocks of
\* one page and column with the same y0 come back in the order they were
\* passed in.
C27_OnlyReordersAndNumbers ==
  call.fn = "_determine_reading_order" =>
    /\ Len(call.ret) = Len(call.blocks)
    /\ \A k \in 1..Len(call.blocks) :
         Cardinality({i \in 1..Len(call.ret) : call.ret[i].id = call.blocks[k].id}) = 1
    /\ \A i \in 1..Len(call.ret) :
         \E k \in 1..Len(call.blocks) :
           call.ret[i] = [call.blocks[k] EXCEPT !.reading_order = call.ret[i].reading_order]
    /\ \A k, l \in 1..Len(call.blocks) :
         (/\ k < l
          /\ call.blocks[k].page = call.blocks[l].page
          /\ call.blocks[k].column = call.blocks[l].column
          /\ call.blocks[k].bbox[2] = call.blocks[l].bbox[2]) =>
           \E i, j \in 1..Len(call.ret) :
             /\ i < j
             /\ call.ret[i].id = call.blocks[k].id
             /\ call.ret[j].id = call.blocks[l].id

\* three blocks of page 1, the first in column 1, the other two at the same
\* height in column 0: these two come first, in the order passed, and only
\* the reading_order of the three has changed
C27_Witness ==
  /\ call.fn = "_determine_reading_order"
  /\ Len(call.blocks) = 3
  /\ \A k \in 1..3 : call.blocks[k].page = 1
  /\ call.blocks[1].column = 1
  /\ call.blocks[2].column = 0 /\ call.blocks[3].column = 0
  /\ call.blocks[2].bbox[2] = call.blocks[3].bbox[2]
  /\ call.ret = << [call.blocks[2] EXCEPT !.reading_order = 0],
                   [call.blocks[3] EXCEPT !.reading_order = 1],
                   [call.blocks[1] EXCEPT !.reading_order = 2] >>
  /\ \A k \in 1..3 : call.blocks[k].reading_order # call.ret[k].reading_order

\* C28: every block _detect_headings returns has a font size above the median
\* of the blocks it was called with, so a block of the median size or a
\* smaller one is not returned, bold or not; and the blocks returned are
\* fewer than half of the blocks with a positive font size.
C28_HeadingsAboveMedian ==
  call.fn = "_detect_headings" =>
    IF PositiveSized(call.blocks) = {} THEN call.ret = <<>>
    ELSE LET median == MedianOfPositive(call.blocks)
         IN /\ \A j \in 1..Len(call.ret) : call.ret[j].font_size > median
            /\ \A i \in 1..Len(call.blocks) :
                 call.blocks[i].font_size <= median =>
                   \A j \in 1..Len(call.ret) : call.ret[j].id # call.blocks[i].id
            /\ 2 * Len(call.ret) < Cardinality(PositiveSized(call.blocks))

\* three blocks of the sizes 10, 10 and 11, the first and the last bold: the
\* median is 10, the last block is the one heading, the first is none
C28_Witness ==
  /\ call.fn = "_detect_headings"
  /\ [i \in 1..Len(call.blocks) |-> call.blocks[i].font_size] = <<10, 10, 11>>
  /\ call.blocks[1].font_weight = "bold"
  /\ call.blocks[3].font_weight = "bold"
  /\ MedianOfPositive(call.blocks) = 10
  /\ Len(call.ret) = 1
  /\ call.ret[1].id = call.blocks[3].id

\* C29: in every page entry of the result of analyze, columns is 1 exactly
\* when layout is single_column, 2 exactly when it is two_column and 3
\* exactly when it is three_column.
C29_ColumnsAgreeWithLayout ==
  result.returned =>
    \A p \in 1..Len(result.pages) :
      /\ result.pages[p].columns = 1 <=> result.pages[p].layout = "single_column"
      /\ result.pages[p].columns = 2 <=> result.pages[p].layout = "two_column"
      /\ result.pages[p].columns = 3 <=> result.pages[p].layout = "three_column"

====
